---------------------------- MODULE Spec2Model ----------------------------
(***************************************************************************)
(* Model of the shopping-assistant MCP gateway: the token verifiers, the   *)
(* HTTP server with its streaming (POST /sse) and REST (POST /tools/name)  *)
(* front ends, the process-wide MCPAgentClient and its retry loop.         *)
(*                                                                         *)
(* JavaScript values: a missing value is UNDEF, the empty string is "";    *)
(* both are falsy (Truthy).  A raw token string is its name in the token   *)
(* table (Tok); the table gives what jsonwebtoken and jwks-rsa find in it. *)
(***************************************************************************)
EXTENDS Integers, Sequences, FiniteSets, TLC

UNDEF == "<undefined>"

Truthy(s) == s /= UNDEF /\ s /= ""

\* a || b on strings
Or(a, b) == IF Truthy(a) THEN a ELSE b

(***************************************************************************)
(* Tokens.  Every field is what the libraries read from the token:         *)
(*   decodes  jwt.decode(token, {complete: true}) returns an object        *)
(*   alg, kid header fields; sigOk: the RS256 signature verifies under the *)
(*   key the JWKS publishes for kid; expired: exp is in the past;          *)
(*   notActive: nbf is in the future.                                      *)
(***************************************************************************)
\* The scope claims: absent, a string (given as its pieces between single
\* spaces, which is what split(' ') returns) or an array.
NoClaim == [t |-> "undefined", v |-> <<>>]
StrClaim(pieces) == [t |-> "string", v |-> pieces]
ArrClaim(items) == [t |-> "array", v |-> items]

BaseTok ==
  [decodes |-> TRUE, alg |-> "RS256", kid |-> "k1", sigOk |-> TRUE,
   expired |-> FALSE, notActive |-> FALSE, aud |-> "api", iss |-> "idp",
   client_id |-> UNDEF, azp |-> UNDEF, appid |-> UNDEF, cid |-> UNDEF,
   sub |-> UNDEF, gty |-> UNDEF, email |-> UNDEF, upn |-> UNDEF,
   name |-> UNDEF, scope |-> NoClaim, scp |-> NoClaim]

ClientTokA == [BaseTok EXCEPT !.client_id = "appA", !.gty = "client-credentials",
                            !.scope = StrClaim(<<"mcp:read", "mcp:write">>)]
ClientTokB == [BaseTok EXCEPT !.azp = "appB", !.sub = "appB@clients",
                            !.scp = ArrClaim(<<"mcp:read">>)]
UserTokA   == [BaseTok EXCEPT !.sub = "alice", !.email = "alice@x", !.name = "Alice"]
UserTokB   == [BaseTok EXCEPT !.sub = "bob", !.upn = "bob@x", !.gty = "password"]

Tok(t) ==
  CASE t = "cA"        -> ClientTokA
    [] t = "cB"        -> ClientTokB
    [] t = "cExpired"  -> [ClientTokA EXCEPT !.expired = TRUE]
    [] t = "cBadSig"   -> [ClientTokA EXCEPT !.sigOk = FALSE]
    [] t = "cNoKey"    -> [ClientTokA EXCEPT !.kid = "kX"]
    [] t = "cNoId"     -> BaseTok
    [] t = "cUserGty"  -> [ClientTokA EXCEPT !.gty = "password"]
    [] t = "cAdmin"    -> [ClientTokA EXCEPT !.scope = StrClaim(<<"mcp:read", "mcp:write", "mcp:admin">>)]
    [] t = "cIdAzp"    -> [BaseTok EXCEPT !.client_id = "id1", !.azp = "id2"]
    [] t = "cAzpAppid" -> [BaseTok EXCEPT !.azp = "id2", !.appid = "id3"]
    [] t = "cAppidCid" -> [BaseTok EXCEPT !.appid = "id3", !.cid = "id4"]
    [] t = "cCidSub"   -> [BaseTok EXCEPT !.cid = "id4", !.sub = "id5"]
    [] t = "cAzpCid"   -> [BaseTok EXCEPT !.azp = "id2", !.cid = "id4"]
    [] t = "cAppidOnly" -> [BaseTok EXCEPT !.appid = "id3"]
    [] t = "cEmptyIdSub" -> [BaseTok EXCEPT !.client_id = "", !.sub = "id5"]
    [] t = "cExpiredWrongAud" -> [ClientTokA EXCEPT !.expired = TRUE, !.aud = "other"]
    [] t = "cExpiredNoId" -> [BaseTok EXCEPT !.expired = TRUE]
    [] t = "cExpiredNotActive" -> [ClientTokA EXCEPT !.expired = TRUE, !.notActive = TRUE]
    [] t = "uA"        -> UserTokA
    [] t = "uB"        -> UserTokB
    [] t = "uExpired"  -> [UserTokA EXCEPT !.expired = TRUE]
    [] t = "uBadSig"   -> [UserTokA EXCEPT !.sigOk = FALSE]
    [] t = "uNoKey"    -> [UserTokA EXCEPT !.kid = "kX"]
    [] t = "uNoSub"    -> [UserTokA EXCEPT !.sub = UNDEF]
    [] t = "uWrongAud" -> [UserTokA EXCEPT !.aud = "other"]
    [] t = "uClientGty" -> [UserTokA EXCEPT !.gty = "client-credentials"]
    [] OTHER           -> [BaseTok EXCEPT !.decodes = FALSE]

ClientTokens == {"cA", "cB", "cExpired", "cBadSig", "cNoKey", "cNoId",
                 "cUserGty", "garbage"}
VerifierTokens ==
  ClientTokens \cup {"cAdmin", "cIdAzp", "cAzpAppid", "cAppidCid", "cCidSub", "cAzpCid",
                     "cAppidOnly", "cEmptyIdSub", "cExpiredWrongAud", "cExpiredNoId",
                     "cExpiredNotActive"}
GoodClientTokens == {"cA", "cB"}
UserTokens == {"uA", "uB", "uExpired", "uBadSig", "uNoKey", "uNoSub",
               "uWrongAud", "uClientGty", "garbage"}

\* Key ids the JWKS endpoint publishes.
JwksKeys == {"k1"}

\* String.prototype.trim on the strings the environment lists hold.
Trim(p) ==
  CASE p = " appA" -> "appA"
    [] p = "appB " -> "appB"
    [] p = "id2 " -> "id2"
    [] p = " mcp:read" -> "mcp:read"
    [] p = " mcp:write" -> "mcp:write"
    [] p = " " -> ""
    [] OTHER -> p

\* An environment variable holding a comma list: unset, or the pieces between
\* its commas (the empty string has the one piece "").
Unset == [set |-> FALSE, pieces |-> <<>>]
EnvList(pieces) == [set |-> TRUE, pieces |-> pieces]

\* process.env.X?.split(',').map(s => s.trim()) || []
SplitTrim(v) ==
  IF v.set THEN [i \in 1..Len(v.pieces) |-> Trim(v.pieces[i])] ELSE <<>>

Includes(seq, x) == \E i \in 1..Len(seq) : seq[i] = x

(***************************************************************************)
(* Results of the helpers that can throw: [ok |-> TRUE, ...] or            *)
(* [ok |-> FALSE, name, message] (the Error's name and message).           *)
(***************************************************************************)
Throw(n, m) == [ok |-> FALSE, name |-> n, message |-> m]

\* getSigningKey handing out a key for any key id.
GetSigningKeyAnyKid(kid, jwksUp) ==
  IF ~jwksUp THEN Throw("JwksError", "jwks endpoint unreachable")
  ELSE [ok |-> TRUE, key |-> kid]

\* client.getSigningKey(kid): the published key, or SigningKeyNotFoundError;
\* with the endpoint unreachable, a JwksError.
GetSigningKey(kid, jwksUp) ==
  IF ~jwksUp THEN Throw("JwksError", "jwks endpoint unreachable")
  ELSE IF kid \in JwksKeys THEN [ok |-> TRUE, key |-> kid]
  ELSE Throw("SigningKeyNotFoundError", "Unable to find a signing key that matches")

\* jwt.verify(token, key, {algorithms: ['RS256'], audience?, issuer?}):
\* algorithm, signature, nbf, exp, then audience and issuer when configured.
JwtVerify(tk, audience, issuer) ==
  IF tk.alg /= "RS256" THEN Throw("JsonWebTokenError", "invalid algorithm")
  ELSE IF ~tk.sigOk THEN Throw("JsonWebTokenError", "invalid signature")
  ELSE IF tk.notActive THEN Throw("NotBeforeError", "jwt not active")
  ELSE IF tk.expired THEN Throw("TokenExpiredError", "jwt expired")
  ELSE IF Truthy(audience) /\ tk.aud /= audience
    THEN Throw("JsonWebTokenError", "jwt audience invalid")
  ELSE IF Truthy(issuer) /\ tk.iss /= issuer
    THEN Throw("JsonWebTokenError", "jwt issuer invalid")
  ELSE [ok |-> TRUE, verified |-> tk]

(***************************************************************************)
(* auth-verifier (src/mcp/tools.ts lines 101-380)                          *)
(***************************************************************************)
\* getJwksClient: throws when OAUTH2_JWKS_URI is unset.
GetJwksClient(e) ==
  IF ~Truthy(e.OAUTH2_JWKS_URI)
  THEN Throw("Error", "OAUTH2_JWKS_URI environment variable is required for OAuth2 authentication")
  ELSE [ok |-> TRUE]

\* The catch block of verifyAccessToken.
AccessCatch(err) ==
  IF err.name = "JsonWebTokenError" THEN Throw("Error", "Invalid token: " \o err.message)
  ELSE IF err.name = "TokenExpiredError" THEN Throw("Error", "Token has expired")
  ELSE Throw("Error", "Token verification failed: " \o err.message)

\* verified.client_id || verified.azp || verified.appid || verified.cid || verified.sub
ExtractClientId(v) == Or(v.client_id, Or(v.azp, Or(v.appid, Or(v.cid, v.sub))))

\* typeof verified.scope === 'string' ? verified.scope.split(' ')
\*   : (Array.isArray(verified.scp) ? verified.scp : [])
ExtractScopes(v) ==
  IF v.scope.t = "string" THEN v.scope.v
  ELSE IF v.scp.t = "array" THEN v.scp.v
  ELSE <<>>

\* requiredScopes.every(scope => scopes.includes(scope))
HasRequiredScopes(requiredScopes, scopes) ==
  \A i \in 1..Len(requiredScopes) : Includes(scopes, requiredScopes[i])

\* requiredScopes.join(', ')
RECURSIVE Join(_)
Join(seq) ==
  IF Len(seq) = 0 THEN ""
  ELSE IF Len(seq) = 1 THEN seq[1]
  ELSE seq[1] \o ", " \o Join(Tail(seq))

VerifyAccessTokenBody(token, e, jwksUp) ==
  LET tk == Tok(token) IN
  IF ~tk.decodes THEN Throw("Error", "Invalid token format")
  ELSE LET c == GetJwksClient(e) IN
  IF ~c.ok THEN c
  ELSE LET k == GetSigningKey(tk.kid, jwksUp) IN
  IF ~k.ok THEN k
  ELSE LET v == JwtVerify(tk, e.OAUTH2_AUDIENCE, e.OAUTH2_ISSUER) IN
  IF ~v.ok THEN v
  ELSE LET clientId == ExtractClientId(v.verified) IN
  IF ~Truthy(clientId) THEN Throw("Error", "Client ID not found in token")
  ELSE LET allowedClients == SplitTrim(e.ALLOWED_MCP_CLIENTS) IN
  IF Len(allowedClients) > 0 /\ ~Includes(allowedClients, clientId)
    THEN Throw("Error", "Unauthorized client: " \o clientId)
  ELSE LET scopes == ExtractScopes(v.verified)
           requiredScopes == SplitTrim(e.REQUIRED_MCP_SCOPES) IN
  IF Len(requiredScopes) > 0 /\ ~HasRequiredScopes(requiredScopes, scopes)
    THEN Throw("Error", "Missing required scopes. Required: " \o Join(requiredScopes))
  ELSE [ok |-> TRUE, clientId |-> clientId, scopes |-> scopes]

verifyAccessToken(token, e, jwksUp) ==
  LET r == VerifyAccessTokenBody(token, e, jwksUp) IN
  IF r.ok THEN r ELSE AccessCatch(r)

\* The catch block of verifyUserToken.
UserCatch(err) ==
  IF err.name = "JsonWebTokenError" THEN Throw("Error", "Invalid user token: " \o err.message)
  ELSE IF err.name = "TokenExpiredError" THEN Throw("Error", "User token has expired")
  ELSE Throw("Error", "User token verification failed: " \o err.message)

VerifyUserTokenBody(token, e, jwksUp) ==
  LET tk == Tok(token) IN
  IF ~tk.decodes THEN Throw("Error", "Invalid user token format")
  ELSE LET c == GetJwksClient(e) IN
  IF ~c.ok THEN c
  ELSE LET k == GetSigningKey(tk.kid, jwksUp) IN
  IF ~k.ok THEN k
  ELSE LET v == JwtVerify(tk, e.OAUTH2_AUDIENCE, e.OAUTH2_ISSUER) IN
  IF ~v.ok THEN v
  ELSE IF ~Truthy(v.verified.sub) THEN Throw("Error", "User ID (sub) not found in token")
  ELSE [ok |-> TRUE, userId |-> v.verified.sub,
        email |-> Or(v.verified.email, v.verified.upn)]

verifyUserToken(token, e, jwksUp) ==
  LET r == VerifyUserTokenBody(token, e, jwksUp) IN
  IF r.ok THEN r ELSE UserCatch(r)

\* A header carrying a token: absent, or "Bearer <value>", or the bare value.
NoHeader == [present |-> FALSE, bearer |-> FALSE, value |-> ""]
Bearer(t) == [present |-> TRUE, bearer |-> TRUE, value |-> t]
Bare(t) == [present |-> TRUE, bearer |-> FALSE, value |-> t]

\* userTokenHeader is truthy: present and not the empty string.
HeaderTruthy(h) == h.present /\ (h.bearer \/ h.value /= "")

AuthFailure(msg) ==
  [success |-> FALSE, accessToken |-> UNDEF, userToken |-> UNDEF,
   clientId |-> UNDEF, userId |-> UNDEF, error |-> msg]

AuthSuccess(accessToken, userToken, clientId, userId) ==
  [success |-> TRUE, accessToken |-> accessToken, userToken |-> userToken,
   clientId |-> clientId, userId |-> userId, error |-> UNDEF]

\* OptionalUserToken keeping the raw token although its verification threw.
OptionalUserTokenKeepsRaw(h, e, jwksUp) ==
  IF ~HeaderTruthy(h) THEN [userId |-> UNDEF, userToken |-> UNDEF]
  ELSE LET u == verifyUserToken(h.value, e, jwksUp) IN
       IF u.ok THEN [userId |-> u.userId, userToken |-> h.value]
       ELSE [userId |-> UNDEF, userToken |-> h.value]

\* The optional user token of verifyAuth: the pair (userId, userToken); a
\* verification failure is caught and leaves both undefined.
OptionalUserToken(h, e, jwksUp) ==
  IF ~HeaderTruthy(h) THEN [userId |-> UNDEF, userToken |-> UNDEF]
  ELSE LET u == verifyUserToken(h.value, e, jwksUp) IN
       IF u.ok THEN [userId |-> u.userId, userToken |-> h.value]
       ELSE [userId |-> UNDEF, userToken |-> UNDEF]

\* The OAuth2 branch rejecting the request when a user token is presented
\* and does not verify.
VerifyAuthOAuth2UserStrict(h, e, jwksUp) ==
  LET accessToken == h.authorization.value
      c == verifyAccessToken(accessToken, e, jwksUp)
      u == OptionalUserToken(h.xUserToken, e, jwksUp)
  IN IF ~c.ok THEN AuthFailure("OAuth2 authentication failed: " \o c.message)
     ELSE IF HeaderTruthy(h.xUserToken) /\ u.userId = UNDEF
     THEN AuthFailure("OAuth2 authentication failed: user token")
     ELSE AuthSuccess(accessToken, u.userToken, c.clientId, u.userId)

\* The OAuth2 branch of verifyAuth.
VerifyAuthOAuth2(h, e, jwksUp) ==
  LET accessToken == h.authorization.value
      c == verifyAccessToken(accessToken, e, jwksUp)
  IN IF ~c.ok THEN AuthFailure("OAuth2 authentication failed: " \o c.message)
     ELSE LET u == OptionalUserToken(h.xUserToken, e, jwksUp)
          IN AuthSuccess(accessToken, u.userToken, c.clientId, u.userId)

\* A final return that lets the request in.
FallthroughOpen ==
  [success |-> TRUE, accessToken |-> UNDEF, userToken |-> UNDEF,
   clientId |-> UNDEF, userId |-> UNDEF, error |-> UNDEF]

\* The API-key branch of verifyAuth; Fallthrough when it returns nothing.
Fallthrough == AuthFailure("No valid authentication provided")

VerifyAuthApiKey(h, e, hasOAuthToken) ==
  IF ~Truthy(e.MCP_API_KEY) THEN AuthFailure("MCP authentication not configured")
  ELSE IF h.xMcpApiKey = e.MCP_API_KEY
    THEN AuthSuccess(UNDEF, UNDEF, UNDEF, UNDEF)
  ELSE IF ~hasOAuthToken THEN AuthFailure("Invalid or missing API key")
  ELSE Fallthrough

verifyAuth(h, e, jwksUp) ==
  LET authMode == Or(e.MCP_AUTH_MODE, "oauth2")
      hasOAuthToken == h.authorization.present /\ h.authorization.bearer
  IN IF authMode = "none" THEN AuthSuccess(UNDEF, UNDEF, UNDEF, UNDEF)
     ELSE IF hasOAuthToken /\ authMode \in {"oauth2", "hybrid"}
       THEN VerifyAuthOAuth2(h, e, jwksUp)
     ELSE IF authMode \in {"api-key", "hybrid"}
       THEN VerifyAuthApiKey(h, e, hasOAuthToken)
     ELSE Fallthrough

(***************************************************************************)
(* dual-token-auth (src/lib/mcp/dual-token-auth.ts)                        *)
(***************************************************************************)
ClientCatch(err) ==
  IF err.name = "JsonWebTokenError" THEN Throw("Error", "Invalid client token: " \o err.message)
  ELSE IF err.name = "TokenExpiredError" THEN Throw("Error", "Client token has expired")
  ELSE Throw("Error", "Client token verification failed: " \o err.message)

\* verified.cid || verified.azp || verified.client_id || verified.sub
DualExtractClientId(v) == Or(v.cid, Or(v.azp, Or(v.client_id, v.sub)))

\* typeof verified.scope === 'string' ? verified.scope.split(' ') : (verified.scope || [])
DualExtractScopes(v) ==
  IF v.scope.t \in {"string", "array"} THEN v.scope.v ELSE <<>>

VerifyClientCredentialsBody(token, e, jwksUp) ==
  LET tk == Tok(token) IN
  IF ~tk.decodes THEN Throw("Error", "Invalid token format")
  ELSE LET k == GetSigningKey(tk.kid, jwksUp) IN
  IF ~k.ok THEN k
  ELSE LET v == JwtVerify(tk, Or(e.MCP_API_AUDIENCE, e.AUTH0_CLIENT_ID),
                          e.AUTH0_ISSUER_BASE_URL) IN
  IF ~v.ok THEN v
  ELSE IF Truthy(v.verified.gty) /\ v.verified.gty /= "client-credentials"
    THEN Throw("Error", "Invalid grant type - expected client-credentials")
  ELSE LET clientId == DualExtractClientId(v.verified) IN
  IF ~Truthy(clientId) THEN Throw("Error", "Client ID not found in token")
  ELSE LET allowedClients == SplitTrim(e.ALLOWED_MCP_CLIENTS) IN
  IF Len(allowedClients) > 0 /\ ~Includes(allowedClients, clientId)
    THEN Throw("Error", "Unauthorized client: " \o clientId)
  ELSE LET scopes == DualExtractScopes(v.verified)
           requiredScopes == SplitTrim(e.REQUIRED_MCP_SCOPES) IN
  IF Len(requiredScopes) > 0 /\ ~HasRequiredScopes(requiredScopes, scopes)
    THEN Throw("Error", "Missing required scopes. Required: " \o Join(requiredScopes))
  ELSE [ok |-> TRUE, clientId |-> clientId, scopes |-> scopes]

verifyClientCredentialsToken(token, e, jwksUp) ==
  LET r == VerifyClientCredentialsBody(token, e, jwksUp) IN
  IF r.ok THEN r ELSE ClientCatch(r)

\* DualVerifyUserTokenBody without the test for a missing sub.
DualVerifyUserTokenBodyNoSubCheck(token, e, jwksUp) ==
  LET tk == Tok(token) IN
  IF ~tk.decodes THEN Throw("Error", "Invalid user token format")
  ELSE LET k == GetSigningKey(tk.kid, jwksUp) IN
  IF ~k.ok THEN k
  ELSE LET v == JwtVerify(tk, e.AUTH0_CLIENT_ID, e.AUTH0_ISSUER_BASE_URL) IN
  IF ~v.ok THEN v
  ELSE IF v.verified.gty = "client-credentials"
    THEN Throw("Error", "User token cannot be a client credentials token")
  ELSE [ok |-> TRUE, userId |-> v.verified.sub, email |-> v.verified.email,
        name |-> v.verified.name, rawToken |-> token]

DualVerifyUserTokenBody(token, e, jwksUp) ==
  LET tk == Tok(token) IN
  IF ~tk.decodes THEN Throw("Error", "Invalid user token format")
  ELSE LET k == GetSigningKey(tk.kid, jwksUp) IN
  IF ~k.ok THEN k
  ELSE LET v == JwtVerify(tk, e.AUTH0_CLIENT_ID, e.AUTH0_ISSUER_BASE_URL) IN
  IF ~v.ok THEN v
  ELSE IF v.verified.gty = "client-credentials"
    THEN Throw("Error", "User token cannot be a client credentials token")
  ELSE IF ~Truthy(v.verified.sub) THEN Throw("Error", "User ID (sub) not found in token")
  ELSE [ok |-> TRUE, userId |-> v.verified.sub, email |-> v.verified.email,
        name |-> v.verified.name, rawToken |-> token]

\* The catch block of verifyUserToken of dual-token-auth.ts.
DualUserCatch(err) ==
  IF err.name = "JsonWebTokenError" THEN Throw("Error", "Invalid user token: " \o err.message)
  ELSE IF err.name = "TokenExpiredError" THEN Throw("Error", "User token has expired")
  ELSE Throw("Error", "User token verification failed: " \o err.message)

\* verifyUserToken of dual-token-auth.ts
dualVerifyUserToken(token, e, jwksUp) ==
  LET r == DualVerifyUserTokenBody(token, e, jwksUp) IN
  IF r.ok THEN r ELSE DualUserCatch(r)

\* Step 2 of verifyDualTokenAuth: userAuth, or null (ok = FALSE) when the
\* header is absent or the verification threw.
DualUserAuth(h, e, jwksUp) ==
  LET hdr == IF HeaderTruthy(h.xUserToken) THEN h.xUserToken
             ELSE h.xForwardedUserToken
  IN IF ~HeaderTruthy(hdr) THEN [ok |-> FALSE]
     ELSE LET u == dualVerifyUserToken(hdr.value, e, jwksUp)
          IN IF u.ok THEN u ELSE [ok |-> FALSE]

\* Step 3 of verifyDualTokenAuth: the AuthContext.
BuildAuthContext(clientAuth, userAuth) ==
  LET context == [clientId |-> clientAuth.clientId,
                  clientScopes |-> clientAuth.scopes,
                  authMethod |-> IF userAuth.ok THEN "dual-token" ELSE "client-only",
                  userId |-> UNDEF, userEmail |-> UNDEF, userName |-> UNDEF,
                  userToken |-> UNDEF]
  IN IF userAuth.ok
     THEN [context EXCEPT !.userId = userAuth.userId, !.userEmail = userAuth.email,
                          !.userName = userAuth.name, !.userToken = userAuth.rawToken]
     ELSE context

\* verifyDualTokenAuth: [ok |-> TRUE, context] or the thrown Error.
verifyDualTokenAuth(h, e, jwksUp) ==
  IF ~(h.authorization.present /\ h.authorization.bearer)
  THEN Throw("Error", "Missing or invalid Authorization header. Expected: Bearer <client_credentials_token>")
  ELSE LET clientAuth == verifyClientCredentialsToken(h.authorization.value, e, jwksUp)
       IN IF ~clientAuth.ok THEN clientAuth
          ELSE [ok |-> TRUE,
                context |-> BuildAuthContext(clientAuth, DualUserAuth(h, e, jwksUp))]

hasUserContext(authContext) ==
  authContext.authMethod = "dual-token" /\ Truthy(authContext.userId)

\* requireUserContext throws iff this is FALSE.
requireUserContext(authContext) == hasUserContext(authContext)

(***************************************************************************)
(* Tool registry and the two tool routers                                  *)
(***************************************************************************)
\* One Tool of the registry; inputSchema is { type: 'object', properties,
\* required? } with the property names in order.
Tool(name, description, properties, required) ==
  [name |-> name, description |-> description,
   inputSchema |-> [type |-> "object", properties |-> properties, required |-> required]]

\* mcpTools, in registry order.
mcpTools ==
  << Tool("search_products", "Search the Safeway product catalog for items.",
          <<"query", "category", "limit">>, <<"query">>),
     Tool("add_to_cart", "Add a product to the shopping cart",
          <<"productCode", "quantity">>, <<"productCode">>),
     Tool("view_cart", "View current shopping cart contents", <<>>, <<>>),
     Tool("checkout", "Complete checkout with CIBA authorization", <<"cartSummary">>, <<>>),
     Tool("add_payment_method", "Add a new payment method with authorization",
          <<"type">>, <<"type">>),
     Tool("get_deals", "Get current deals and promotions available at Safeway",
          <<"category">>, <<>>) >>

\* tools.map(t => t.name)
MapName(tools) == [i \in 1..Len(tools) |-> tools[i].name]

\* The names an array of names or of tools holds.
NameSet(names) == {names[i] : i \in 1..Len(names)}

\* Tool arguments: every field the routers read; UNDEF when absent.
NoArgs == [query |-> UNDEF, category |-> UNDEF, limit |-> UNDEF,
           productCode |-> UNDEF, quantity |-> UNDEF, cartSummary |-> UNDEF,
           type |-> UNDEF]

\* The body of a backend request (JSON.stringify drops undefined fields).
NoData == [action |-> UNDEF, query |-> UNDEF, category |-> UNDEF, limit |-> UNDEF,
           productCode |-> UNDEF, quantity |-> UNDEF, cartSummary |-> UNDEF,
           type |-> UNDEF]

NoRoute == [known |-> FALSE, agent |-> UNDEF, data |-> NoData]
RouteTo(agent, data) == [known |-> TRUE, agent |-> agent, data |-> data]

\* The switch of the CallToolRequestSchema handler.
RpcRoute(name, args) ==
  CASE name = "search_products" ->
         RouteTo("catalog", [NoData EXCEPT !.action = "search", !.query = args.query,
                             !.category = args.category, !.limit = args.limit])
    [] name = "add_to_cart" ->
         RouteTo("cart", [NoData EXCEPT !.action = "add",
                          !.productCode = args.productCode, !.quantity = args.quantity])
    [] name = "view_cart" -> RouteTo("cart", [NoData EXCEPT !.action = "view"])
    [] name = "checkout" ->
         RouteTo("cart", [NoData EXCEPT !.action = "checkout",
                          !.cartSummary = args.cartSummary])
    [] name = "add_payment_method" ->
         RouteTo("payment", [NoData EXCEPT !.action = "add", !.type = args.type])
    [] name = "get_deals" ->
         RouteTo("deals", [NoData EXCEPT !.action = "get", !.category = args.category])
    [] OTHER -> NoRoute

\* The REST switch without the get_deals case.
RestRouteNoDeals(toolName, args) ==
  IF toolName = "get_deals" THEN NoRoute ELSE RpcRoute(toolName, args)

\* The switch of the POST /tools/{name} handler.
RestRoute(toolName, args) ==
  CASE toolName = "search_products" ->
         RouteTo("catalog", [NoData EXCEPT !.action = "search", !.query = args.query,
                             !.category = args.category, !.limit = args.limit])
    [] toolName = "add_to_cart" ->
         RouteTo("cart", [NoData EXCEPT !.action = "add",
                          !.productCode = args.productCode, !.quantity = args.quantity])
    [] toolName = "view_cart" -> RouteTo("cart", [NoData EXCEPT !.action = "view"])
    [] toolName = "checkout" ->
         RouteTo("cart", [NoData EXCEPT !.action = "checkout",
                          !.cartSummary = args.cartSummary])
    [] toolName = "add_payment_method" ->
         RouteTo("payment", [NoData EXCEPT !.action = "add", !.type = args.type])
    [] toolName = "get_deals" ->
         RouteTo("deals", [NoData EXCEPT !.action = "get", !.category = args.category])
    [] OTHER -> NoRoute

(***************************************************************************)
(* Backend results.  A 2xx JSON body is [id, isArr, msgs]: isArr says      *)
(* result.messages is an array, msgs holds each message's kwargs.content   *)
(* (UNDEF when the message has no kwargs or no content).                   *)
(***************************************************************************)
NoResult == [id |-> UNDEF, isArr |-> FALSE, msgs |-> <<>>]

\* JSON.stringify(result, null, 2)
Stringify(result) == IF result.id = UNDEF THEN UNDEF ELSE "json(" \o result.id \o ")"

\* The response text of the CallToolRequestSchema handler.
RpcResponseText(result) ==
  IF result.id /= UNDEF /\ result.isArr
  THEN IF Len(result.msgs) > 0 /\ Truthy(result.msgs[Len(result.msgs)])
       THEN result.msgs[Len(result.msgs)]
       ELSE Stringify(result)
  ELSE Stringify(result)

\* The response text of the POST /tools/{name} handler.
RestResponseText(result) ==
  IF result.id /= UNDEF /\ result.isArr
  THEN IF Len(result.msgs) > 0 /\ Truthy(result.msgs[Len(result.msgs)])
       THEN result.msgs[Len(result.msgs)]
       ELSE Stringify(result)
  ELSE Stringify(result)

(***************************************************************************)
(* MCPAgentClient (src/mcp/client.ts)                                      *)
(***************************************************************************)
DefaultRetries == 3
BackoffBaseMs == 1000

RECURSIVE Pow2(_)
Pow2(n) == IF n <= 0 THEN 1 ELSE 2 * Pow2(n - 1)

\* 1000 * Math.pow(2, attempt)
BackoffDelay(attempt) == BackoffBaseMs * Pow2(attempt)

\* The loop condition with <= in place of <.
LoopContinuesInclusive(attempt, retries) == attempt <= retries

\* for (let attempt = 0; attempt < retries; attempt++)
LoopContinues(attempt, retries) == attempt < retries

\* IsLastAttempt off by one.
IsLastAttemptOffByOne(attempt, retries) == attempt = retries

\* The catch block's test for the last attempt.
IsLastAttempt(attempt, retries) == attempt = retries - 1

\* `Failed after ${retries} attempts: ${error.message}`
ExhaustedMessage(retries, message) ==
  "Failed after " \o ToString(retries) \o " attempts: " \o message

\* The headers callAgent builds for one attempt from the client's fields.
CallHeaders(client) ==
  [authorization |-> IF Truthy(client.accessToken) THEN client.accessToken ELSE UNDEF,
   xUserToken |-> IF Truthy(client.userToken) THEN client.userToken ELSE UNDEF]

\* What one fetch attempt can end with: a 2xx JSON body, a non-2xx status
\* (thrown as `HTTP ${status}: ${text}`), or a rejected fetch (network error,
\* timeout).
OutcomeOk(result) == [ok |-> TRUE, result |-> result, message |-> UNDEF]
OutcomeFail(message) == [ok |-> FALSE, result |-> NoResult, message |-> message]
HttpError(status, text) == OutcomeFail("HTTP " \o ToString(status) \o ": " \o text)

(***************************************************************************)
(* openid-discovery (src/mcp/openid-discovery.ts)                          *)
(***************************************************************************)
\* const CACHE_TTL = 3600000; // 1 hour
CACHE_TTL == 3600000

\* An array-valued key of a configuration: absent, or its items.
NoList == [present |-> FALSE, items |-> <<>>]
List(items) == [present |-> TRUE, items |-> items]

\* An OpenIDConfiguration by its keys (UNDEF: the key is absent); `rest` are
\* the names of the other keys it carries. NoConfig is null.
NoConfig ==
  [present |-> FALSE, issuer |-> UNDEF, authorization_endpoint |-> UNDEF,
   userinfo_endpoint |-> UNDEF, end_session_endpoint |-> UNDEF,
   token_endpoint |-> UNDEF, jwks_uri |-> UNDEF, grant_types_supported |-> NoList,
   response_types_supported |-> NoList, rest |-> {}]

\* issuer.replace(/\/$/, '')
StripSlash(u) == IF u = "https://idp/" THEN "https://idp" ELSE u

\* The minimal configuration built from the environment.
MinimalConfig(e) ==
  LET defaultTokenEndpoint ==
        IF Truthy(e.OAUTH2_ISSUER) THEN StripSlash(e.OAUTH2_ISSUER) \o "/oauth/token"
        ELSE UNDEF
  IN [NoConfig EXCEPT
        !.present = TRUE,
        !.issuer = Or(e.OAUTH2_ISSUER, "unknown"),
        !.token_endpoint = Or(e.OAUTH2_TOKEN_ENDPOINT, defaultTokenEndpoint),
        !.jwks_uri = e.OAUTH2_JWKS_URI,
        !.response_types_supported = List(<<"token">>),
        !.grant_types_supported = List(<<"client_credentials">>),
        !.rest = {"subject_types_supported", "id_token_signing_alg_values_supported",
                  "token_endpoint_auth_methods_supported"}]

\* The filter keeping the authorization endpoint of the upstream document.
FilterConfigKeepsAuthorization(upstreamConfig) ==
  [upstreamConfig EXCEPT
     !.userinfo_endpoint = UNDEF, !.end_session_endpoint = UNDEF,
     !.grant_types_supported = List(<<"client_credentials">>),
     !.response_types_supported = List(<<"token">>)]

\* const { authorization_endpoint, userinfo_endpoint, end_session_endpoint,
\*         ...mcpConfig } = upstreamConfig;
\* filteredConfig = { ...mcpConfig, grant_types_supported, response_types_supported,
\*                    token_endpoint: mcpConfig.token_endpoint || upstreamConfig.token_endpoint }
FilterConfig(upstreamConfig) ==
  [upstreamConfig EXCEPT
     !.authorization_endpoint = UNDEF, !.userinfo_endpoint = UNDEF,
     !.end_session_endpoint = UNDEF,
     !.grant_types_supported = List(<<"client_credentials">>),
     !.response_types_supported = List(<<"token">>),
     !.token_endpoint = Or(upstreamConfig.token_endpoint, upstreamConfig.token_endpoint)]

\* cachedConfig and cacheTimestamp.
EmptyCache == [config |-> NoConfig, timestamp |-> 0]

\* The cache check admitting an entry that is exactly CACHE_TTL old.
CacheValidInclusive(cache, now) ==
  cache.config.present /\ (now - cache.timestamp) <= CACHE_TTL

\* cachedConfig && (now - cacheTimestamp) < CACHE_TTL
CacheValid(cache, now) ==
  cache.config.present /\ (now - cache.timestamp) < CACHE_TTL

\* The cache write replacing the document and keeping the old timestamp.
CacheWriteDocOnly(cache, config, now) == [cache EXCEPT !.config = config]

\* cachedConfig = config; cacheTimestamp = now;
CacheWrite(cache, config, now) == [config |-> config, timestamp |-> now]

\* What the upstream provider answers one fetch: a JSON document (NoConfig:
\* the JSON value null), or a failure (no response, a non-2xx status, a body
\* that is not JSON).
UpOk(doc) == [ok |-> TRUE, doc |-> doc, message |-> UNDEF]
UpFail(message) == [ok |-> FALSE, doc |-> NoConfig, message |-> message]
NoUpstream == UpFail(UNDEF)

\* One call of getOpenIDConfiguration: where it is, the request it serves (0:
\* none), the clock it read, the cache it found, whether it fetched and what
\* the upstream answered, whether it wrote the cache, and how it ended.
NoGet ==
  [pc |-> "idle", req |-> 0, now |-> 0, seen |-> EmptyCache, fetched |-> FALSE,
   upstream |-> NoUpstream, wrote |-> FALSE, src |-> UNDEF, result |-> NoConfig,
   error |-> UNDEF]

\* getOpenIDConfiguration up to its first await: the call and the cache after.
GetStart(cache, now, e, r) ==
  LET g == [NoGet EXCEPT !.req = r, !.now = now, !.seen = cache] IN
  IF CacheValid(cache, now)
  THEN [get |-> [g EXCEPT !.pc = "returned", !.src = "cache", !.result = cache.config],
        cache |-> cache]
  ELSE IF ~Truthy(e.OAUTH2_OPENID_CONFIG_URL)
  THEN IF ~Truthy(e.OAUTH2_JWKS_URI)
       THEN [get |-> [g EXCEPT !.pc = "thrown", !.error = "OAUTH2_JWKS_URI is required"],
             cache |-> cache]
       ELSE [get |-> [g EXCEPT !.pc = "returned", !.src = "minimal", !.wrote = TRUE,
                               !.result = MinimalConfig(e)],
             cache |-> CacheWrite(cache, MinimalConfig(e), now)]
  ELSE [get |-> [g EXCEPT !.pc = "fetch", !.fetched = TRUE], cache |-> cache]

\* The catch block rethrowing although a configuration is cached.
OnFetchErrorAlwaysThrows(g, cache, message) ==
  [g EXCEPT !.pc = "thrown", !.error = message]

\* The catch block: the cached configuration if there is one, even if
\* expired; otherwise the error is rethrown.
OnFetchError(g, cache, message) ==
  IF cache.config.present
  THEN [g EXCEPT !.pc = "returned", !.src = "stale", !.result = cache.config]
  ELSE [g EXCEPT !.pc = "thrown", !.error = message]

\* getOpenIDConfiguration after the fetch has settled: the call and the cache
\* after. Destructuring null throws a TypeError inside the try.
GetSettle(g, cache, outcome) ==
  LET h == [g EXCEPT !.upstream = outcome] IN
  IF outcome.ok /\ outcome.doc.present
  THEN [get |-> [h EXCEPT !.pc = "returned", !.src = "fresh", !.wrote = TRUE,
                          !.result = FilterConfig(outcome.doc)],
        cache |-> CacheWrite(cache, FilterConfig(outcome.doc), g.now)]
  ELSE [get |-> OnFetchError(h, cache,
                             IF outcome.ok THEN "Cannot destructure property of null"
                             ELSE outcome.message),
        cache |-> cache]

(***************************************************************************)
(* OAuth2Client (src/lib/oauth2-client.ts): the client-credentials token   *)
(* cache.  Times are Date.now() values in milliseconds.                    *)
(***************************************************************************)
\* const bufferMs = 5 * 60 * 1000
BufferMs == 300000
\* data.expires_in || 3600
DefaultExpiresIn == 3600

\* cachedToken: null, or an AccessToken {token, expiresAt}.
NoAccessToken == [present |-> FALSE, token |-> UNDEF, expiresAt |-> 0]
AccessToken(token, expiresAt) == [present |-> TRUE, token |-> token, expiresAt |-> expiresAt]

\* The cache check with >= in place of >.
CachedTokenUsableInclusive(cachedToken, now) ==
  cachedToken.present /\ cachedToken.expiresAt >= now + BufferMs

\* this.cachedToken && this.cachedToken.expiresAt > now + bufferMs
CachedTokenUsable(cachedToken, now) ==
  cachedToken.present /\ cachedToken.expiresAt > now + BufferMs

\* What the token endpoint can answer: a 2xx JSON body (access_token UNDEF
\* when the field is missing, expires_in 0 when it is missing or zero), a
\* non-2xx status with its text, or a rejected fetch.
TokenBody(access_token, expires_in) ==
  [kind |-> "json", status |-> 200, access_token |-> access_token,
   expires_in |-> expires_in, text |-> UNDEF]
TokenStatus(status, text) ==
  [kind |-> "status", status |-> status, access_token |-> UNDEF,
   expires_in |-> 0, text |-> text]
TokenNetworkError(message) ==
  [kind |-> "network", status |-> 0, access_token |-> UNDEF,
   expires_in |-> 0, text |-> message]

\* The settled tokenRefreshPromise: fulfilled with an AccessToken or
\* rejected with an Error's message.
Fulfilled(tok) == [ok |-> TRUE, token |-> tok, message |-> UNDEF]
Rejected(message) == [ok |-> FALSE, token |-> NoAccessToken, message |-> message]

\* fetchNewToken once the endpoint has answered, at time `now`.
fetchNewToken(response, now) ==
  IF response.kind = "network"
  THEN Rejected("OAuth2 token acquisition failed: " \o response.text)
  ELSE IF response.kind = "status"
  THEN Rejected("OAuth2 token acquisition failed: OAuth2 token request failed ("
                \o ToString(response.status) \o "): " \o response.text)
  ELSE IF ~Truthy(response.access_token)
  THEN Rejected("OAuth2 token acquisition failed: OAuth2 response missing access_token")
  ELSE LET expiresIn == IF response.expires_in /= 0 THEN response.expires_in
                        ELSE DefaultExpiresIn
       IN Fulfilled(AccessToken(response.access_token, now + expiresIn * 1000))

\* One token request: unused, pending, or settled with its result.
NoTokenRequest == [st |-> "unused", result |-> Rejected(UNDEF)]

\* One call of getAccessToken or refreshToken: where it stands, the path it
\* took (cache, wait, refresh), the request it awaits, and what it returned
\* or threw.
NoCaller ==
  [pc |-> "idle", op |-> UNDEF, src |-> UNDEF, awaiting |-> 0, token |-> UNDEF,
   error |-> UNDEF]

\* A refresh check that never finds one in progress.
RefreshInProgressNever(o) == FALSE

\* if (this.tokenRefreshPromise)
RefreshInProgress(o) == o.tokenRefreshPromise /= 0

\* The lowest unused token request.
FreeTokenRequests(o) == {k \in DOMAIN o.requests : o.requests[k].st = "unused"}
NextTokenRequest(o) == CHOOSE k \in FreeTokenRequests(o) : \A j \in FreeTokenRequests(o) : k <= j

\* getAccessToken up to its return or its first await, for caller c.
getAccessTokenStart(o, c, op) ==
  LET me == [NoCaller EXCEPT !.op = op]
  IN IF CachedTokenUsable(o.cachedToken, o.now)
     THEN [o EXCEPT !.callers[c] =
             [me EXCEPT !.pc = "returned", !.src = "cache", !.token = o.cachedToken.token]]
     ELSE IF RefreshInProgress(o)
     THEN [o EXCEPT !.callers[c] =
             [me EXCEPT !.pc = "waiting", !.src = "wait", !.awaiting = o.tokenRefreshPromise]]
     ELSE LET k == NextTokenRequest(o)
          IN [o EXCEPT !.requests[k].st = "pending", !.tokenRefreshPromise = k,
                       !.callers[c] = [me EXCEPT !.pc = "initiator", !.src = "refresh",
                                                 !.awaiting = k]]

\* Whether that call starts a token request.
StartsTokenRequest(o) ==
  ~CachedTokenUsable(o.cachedToken, o.now) /\ ~RefreshInProgress(o)

\* The initiator's continuation without the try/finally: the marker is
\* cleared only after a successful await.
InitiatorContinueNoFinally(o, c, result) ==
  IF result.ok
  THEN [o EXCEPT !.cachedToken = result.token, !.tokenRefreshPromise = 0,
                 !.callers[c].pc = "returned", !.callers[c].token = result.token.token]
  ELSE [o EXCEPT !.callers[c].pc = "thrown", !.callers[c].error = result.message]

\* The initiator's continuation: try { token = await promise; cachedToken =
\* token; return token.token } finally { tokenRefreshPromise = null }.
InitiatorContinue(o, c, result) ==
  IF result.ok
  THEN [o EXCEPT !.cachedToken = result.token, !.tokenRefreshPromise = 0,
                 !.callers[c].pc = "returned", !.callers[c].token = result.token.token]
  ELSE [o EXCEPT !.tokenRefreshPromise = 0,
                 !.callers[c].pc = "thrown", !.callers[c].error = result.message]

\* A waiter's continuation: const token = await this.tokenRefreshPromise;
\* return token.token (the rejection propagates).
WaiterContinue(o, c, result) ==
  IF result.ok
  THEN [o EXCEPT !.callers[c].pc = "returned", !.callers[c].token = result.token.token]
  ELSE [o EXCEPT !.callers[c].pc = "thrown", !.callers[c].error = result.message]

(***************************************************************************)
(* CartCache (src/lib/cache/cart-cache.ts).  A CartItem is a JavaScript    *)
(* object: the carts hold references to the objects their callers passed,  *)
(* so the store is a heap of item objects (objs) and a Map from user id to *)
(* a cart whose items array holds object references.  createdAt and        *)
(* updatedAt are not modelled.                                             *)
(***************************************************************************)
NoItem == [alloc |-> FALSE, id |-> UNDEF, price |-> 0, quantity |-> 0]
CartItem(id, price, quantity) ==
  [alloc |-> TRUE, id |-> id, price |-> price, quantity |-> quantity]

NoCart == [present |-> FALSE, items |-> <<>>, totalItems |-> 0, totalValue |-> 0]
\* { userId, items: [], totalItems: 0, totalValue: 0, ... }
EmptyCart == [present |-> TRUE, items |-> <<>>, totalItems |-> 0, totalValue |-> 0]

\* cart.items.reduce((total, item) => total + item.quantity, 0)
RECURSIVE ReduceQuantity(_, _)
ReduceQuantity(objs, items) ==
  IF items = <<>> THEN 0
  ELSE objs[Head(items)].quantity + ReduceQuantity(objs, Tail(items))

\* cart.items.reduce((total, item) => total + (item.price * item.quantity), 0)
RECURSIVE ReduceValue(_, _)
ReduceValue(objs, items) ==
  IF items = <<>> THEN 0
  ELSE objs[Head(items)].price * objs[Head(items)].quantity
       + ReduceValue(objs, Tail(items))

\* cart.items.findIndex(item => item.id === id): the first position holding
\* an item with that id, 0 when there is none (positions count from 1).
FindIndex(objs, items, id) ==
  IF \E i \in 1..Len(items) : objs[items[i]].id = id
  THEN CHOOSE i \in 1..Len(items) :
         /\ objs[items[i]].id = id
         /\ \A j \in 1..(i - 1) : objs[items[j]].id /= id
  ELSE 0

\* cart.items.filter(item => item.id !== itemId)
RECURSIVE FilterOut(_, _, _)
FilterOut(objs, items, itemId) ==
  IF items = <<>> THEN <<>>
  ELSE IF objs[Head(items)].id /= itemId
       THEN <<Head(items)>> \o FilterOut(objs, Tail(items), itemId)
       ELSE FilterOut(objs, Tail(items), itemId)

\* cart.items.splice(itemIndex, 1)
Splice(items, i) == SubSeq(items, 1, i - 1) \o SubSeq(items, i + 1, Len(items))

\* "Recalculate totals" of one cart from the objects its items refer to.
Recalculate(cart, objs) ==
  [cart EXCEPT !.totalItems = ReduceQuantity(objs, cart.items),
               !.totalValue = ReduceValue(objs, cart.items)]

\* addItemToCart(userId, item), item being the object o.
addItemToCart(cc, userId, o) ==
  LET cart == IF cc.carts[userId].present THEN cc.carts[userId] ELSE EmptyCart
      existingItemIndex == FindIndex(cc.objs, cart.items, cc.objs[o].id)
      objs == IF existingItemIndex > 0
              THEN [cc.objs EXCEPT ![cart.items[existingItemIndex]].quantity =
                                      @ + cc.objs[o].quantity]
              ELSE cc.objs
      items == IF existingItemIndex > 0 THEN cart.items ELSE Append(cart.items, o)
  IN [objs |-> objs,
      carts |-> [cc.carts EXCEPT ![userId] = Recalculate([cart EXCEPT !.items = items], objs)]]

\* removeItemFromCart(userId, itemId)
removeItemFromCart(cc, userId, itemId) ==
  IF ~cc.carts[userId].present THEN cc
  ELSE LET cart == cc.carts[userId]
           items == FilterOut(cc.objs, cart.items, itemId)
       IN [cc EXCEPT !.carts[userId] = Recalculate([cart EXCEPT !.items = items], cc.objs)]

\* updateItemQuantity(userId, itemId, quantity)
updateItemQuantity(cc, userId, itemId, quantity) ==
  IF ~cc.carts[userId].present THEN cc
  ELSE LET cart == cc.carts[userId]
           itemIndex == FindIndex(cc.objs, cart.items, itemId)
       IN IF itemIndex = 0 THEN cc
          ELSE IF quantity <= 0
          THEN [cc EXCEPT !.carts[userId] =
                  Recalculate([cart EXCEPT !.items = Splice(cart.items, itemIndex)], cc.objs)]
          ELSE LET objs == [cc.objs EXCEPT ![cart.items[itemIndex]].quantity = quantity]
               IN [objs |-> objs,
                   carts |-> [cc.carts EXCEPT ![userId] = Recalculate(cart, objs)]]

\* clearCart(userId): this.carts.delete(userId)
clearCart(cc, userId) == [cc EXCEPT !.carts[userId] = NoCart]

\* clearAllCarts(): this.carts.clear()
clearAllCarts(cc) == [cc EXCEPT !.carts = [u \in DOMAIN cc.carts |-> NoCart]]

(***************************************************************************)
(* The HTTP server (src/mcp/tools.ts lines 382-981)                        *)
(***************************************************************************)
MaxReq == 2
MaxRpc == 1
MaxRetries == 4
MaxList == 2
MaxGets == 2
MaxTicks == 1
MaxCallers == 3
MaxTokenRequests == 2
MaxObjs == 2
MaxQuantity == 3

VARIABLES
  env,          \* process.env, fixed once the process has started
  agentClient,  \* the process-wide MCPAgentClient: [accessToken, userToken]
  reqs,         \* the HTTP requests and JSON-RPC deliveries, by id
  inv,          \* the callAgent invocation of each request
  calls,        \* the backend HTTP attempts issued so far
  authRes,      \* the verifiers applied to one request (SpecAuth)
  registry,     \* the mcpTools array of the running process
  listing,      \* tools/list: [callCount, returned, overtook], the results returned so far
  oidc,         \* openid-discovery: the cache, the clock, the getOpenIDConfiguration calls
  proc,         \* the process: "starting", "listening" or "exited"
  oauth2,       \* one OAuth2Client: its cache, its refresh promise, its callers, the clock
  cartCache     \* CartCache: the item objects and the carts Map

vars == <<env, agentClient, reqs, inv, calls, authRes, registry, listing, oidc, proc,
          oauth2, cartCache>>

\* HTTP requests and direct callAgent invocations take the ids ReqIds, the
\* JSON-RPC requests handed to the Server's handlers the ids RpcIds.
ReqIds == 1..MaxReq
RpcIds == (MaxReq + 1)..(MaxReq + MaxRpc)
AllIds == ReqIds \cup RpcIds

\* Startup validation that does not look at MCP_API_KEY.
StartupOkNoKeyCheck(e) ==
  LET mode == Or(e.MCP_AUTH_MODE, "oauth2") IN
  mode \in {"oauth2", "hybrid"} => Truthy(e.OAUTH2_JWKS_URI)

\* Startup validation: the process exits unless this holds.
StartupOk(e) ==
  LET mode == Or(e.MCP_AUTH_MODE, "oauth2") IN
  /\ (mode \in {"oauth2", "hybrid"} => Truthy(e.OAUTH2_JWKS_URI))
  /\ (mode \in {"api-key", "hybrid"} => Truthy(e.MCP_API_KEY))

BaseEnv ==
  [MCP_AUTH_MODE |-> "oauth2", MCP_API_KEY |-> "secret",
   OAUTH2_JWKS_URI |-> "https://idp/jwks", OAUTH2_ISSUER |-> "idp",
   OAUTH2_AUDIENCE |-> "api", ALLOWED_MCP_CLIENTS |-> Unset,
   REQUIRED_MCP_SCOPES |-> Unset, AUTH0_ISSUER_BASE_URL |-> "idp",
   AUTH0_CLIENT_ID |-> "api", MCP_API_AUDIENCE |-> UNDEF,
   OAUTH2_OPENID_CONFIG_URL |-> UNDEF, OAUTH2_TOKEN_ENDPOINT |-> UNDEF]

AuthModes == {"oauth2", "api-key", "hybrid", "none"}

NoHeaders == [authorization |-> NoHeader, xUserToken |-> NoHeader,
              xForwardedUserToken |-> NoHeader, xMcpApiKey |-> UNDEF]

NoAuth == AuthFailure(UNDEF)

NoResp == [shape |-> "none", text |-> UNDEF, isError |-> FALSE, tools |-> <<>>, paths |-> {},
           schemas |-> {}, config |-> NoConfig]

\* { content: [{ type: 'text', text }], isError? }
ToolResult(text, isError) == [NoResp EXCEPT !.shape = "ToolResult", !.text = text, !.isError = isError]

\* Any other JSON body, by its message.
ErrorBody(shape, text) == [NoResp EXCEPT !.shape = shape, !.text = text]

\* The /health body: status 'healthy' and tools: mcpTools.map(t => t.name).
HealthBody(tools) == [NoResp EXCEPT !.shape = "health", !.text = "healthy", !.tools = MapName(tools)]

\* generateOpenAPISchema leaving out the last tool.
generateOpenAPISchemaDropsLast(tools) ==
  {"/tools/" \o tools[i].name : i \in 1..(Len(tools) - 1)}

\* generateOpenAPISchema: the keys of `paths`, one `/tools/${tool.name}` for
\* each tool (a repeated name overwrites its key).
generateOpenAPISchema(tools) == {"/tools/" \o tools[i].name : i \in 1..Len(tools)}

\* convertJsonSchemaToOpenAPI losing the type.
convertJsonSchemaToOpenAPINoType(jsonSchema) == [jsonSchema EXCEPT !.type = UNDEF]

\* convertJsonSchemaToOpenAPI: { ...jsonSchema, type: jsonSchema.type || 'object' }
convertJsonSchemaToOpenAPI(jsonSchema) ==
  [jsonSchema EXCEPT !.type = Or(jsonSchema.type, "object")]

\* paths[pathName].post.requestBody.content['application/json'].schema of
\* every path of the OpenAPI document (of tools with one name, the last one
\* wrote the path).
RequestBodySchemas(tools) ==
  {[path |-> "/tools/" \o tools[i].name,
    schema |-> convertJsonSchemaToOpenAPI(tools[i].inputSchema)] :
     i \in {j \in 1..Len(tools) :
              \A k \in (j + 1)..Len(tools) : tools[k].name /= tools[j].name}}

\* The body of /.well-known/openapi.json and /openapi.json.
OpenApiBody(tools) ==
  [NoResp EXCEPT !.shape = "openapi", !.paths = generateOpenAPISchema(tools),
                 !.schemas = RequestBodySchemas(tools)]

\* ListToolsResult with an empty inputSchema for every tool.
ListToolsResultNoSchema(tools) ==
  [i \in 1..Len(tools) |->
     [name |-> tools[i].name, description |-> tools[i].description,
      inputSchema |-> [type |-> "object", properties |-> <<>>, required |-> <<>>]]]

\* The ListToolsRequestSchema handler's result: name, description and
\* inputSchema of every tool, in order.
ListToolsResult(tools) ==
  [i \in 1..Len(tools) |->
     [name |-> tools[i].name, description |-> tools[i].description,
      inputSchema |-> tools[i].inputSchema]]

\* toolsListCalled = false, toolsListCallCount = 0, nothing returned yet.
NoListing == [callCount |-> 0, returned |-> {}, overtook |-> {}]

\* The getOpenIDConfiguration calls take the ids GetIds.
GetIds == 1..MaxGets

\* The clock when the process starts.
StartTime == CACHE_TTL

\* cachedConfig = null, cacheTimestamp = 0; no call made yet.
NoOidc ==
  [cache |-> EmptyCache, now |-> StartTime, gets |-> [c \in GetIds |-> NoGet],
   ticks |-> 0]

NoBody == [json |-> FALSE, args |-> NoArgs]
JsonBody(args) == [json |-> TRUE, args |-> args]

NewReq ==
  [st |-> "new", route |-> UNDEF, toolName |-> UNDEF, body |-> NoBody,
   session |-> 0, after |-> {}, auth |-> NoAuth, status |-> 0,
   wwwAuth |-> FALSE, resp |-> NoResp, delivered |-> FALSE]

NoInv ==
  [phase |-> "idle", agent |-> UNDEF, data |-> NoData, retries |-> 0,
   attempt |-> 0, waits |-> <<>>, lastError |-> UNDEF, error |-> UNDEF,
   result |-> NoResult]

\* new MCPAgentClient(NEXTJS_URL): accessToken = null, userToken = undefined
NewClient == [accessToken |-> UNDEF, userToken |-> UNDEF]

\* The route a request takes through the createServer callback.
Route(method, url) ==
  IF method = "OPTIONS" THEN "options"
  ELSE IF url.base \in {"/health", "/"} /\ url.name = "" THEN "health"
  ELSE IF url.base \in {"/.well-known/oauth-protected-resource",
                        "/sse/.well-known/oauth-protected-resource"}
          /\ url.name = "" /\ method = "GET" THEN "protected-resource"
  ELSE IF url.base \in {"/.well-known/openid-configuration",
                        "/sse/.well-known/openid-configuration"}
          /\ url.name = "" /\ method = "GET" THEN "openid"
  ELSE IF url.base \in {"/.well-known/openapi.json", "/openapi.json"} /\ url.name = ""
          /\ method = "GET" THEN "openapi"
  ELSE IF url.base = "/sse" /\ url.name = "" /\ method = "POST" THEN "sse"
  ELSE IF url.base = "/tools/" /\ method = "POST" THEN "tools"
  ELSE "notfound"

\* sendAuthError without the challenge header.
sendAuthErrorNoChallenge(req, message) ==
  [req EXCEPT !.st = "done", !.status = 401,
              !.resp = ErrorBody("Unauthorized", Or(message, "Authentication required"))]

\* sendAuthError: 401 with the WWW-Authenticate: Bearer challenge.
sendAuthError(req, message) ==
  [req EXCEPT !.st = "done", !.status = 401, !.wwwAuth = TRUE,
              !.resp = ErrorBody("Unauthorized", Or(message, "Authentication required"))]

Answer(req, status, resp) ==
  [req EXCEPT !.st = "done", !.status = status, !.resp = resp]

\* POST /sse: "Store auth tokens for this connection".
SseStoreTokens(client, a) ==
  [accessToken |-> IF Truthy(a.accessToken) THEN a.accessToken ELSE client.accessToken,
   userToken |-> IF Truthy(a.userToken) THEN a.userToken ELSE client.userToken]

\* POST /tools/{name}: "Store auth tokens for this request".
RestStoreTokens(client, a) ==
  [accessToken |-> IF Truthy(a.accessToken) THEN a.accessToken ELSE client.accessToken,
   userToken |-> IF Truthy(a.userToken) THEN a.userToken ELSE client.userToken]

\* callAgent up to its first await: with attempts left, the first fetch is
\* issued with the headers built from the client as it is now; with none
\* (retries <= 0) the loop body never runs and the call resolves undefined.
CallAgentStart(agent, data, retries) ==
  IF LoopContinues(0, retries)
  THEN [NoInv EXCEPT !.phase = "fetch", !.agent = agent, !.data = data,
                     !.retries = retries]
  ELSE [NoInv EXCEPT !.phase = "returned", !.agent = agent, !.data = data,
                     !.retries = retries]

\* The record of one fetch: who it was made for and what it carried.
Attempt(r, i, client) ==
  [req |-> r, n |-> i.attempt, authorization |-> CallHeaders(client).authorization,
   xUserToken |-> CallHeaders(client).xUserToken, agent |-> i.agent, data |-> i.data]

\* The POST /tools/{name} handler after callAgent has settled.
RestFinish(req, i) ==
  IF i.phase = "returned"
  THEN Answer(req, 200, ToolResult(RestResponseText(i.result), FALSE))
  ELSE Answer(req, 500, ErrorBody("Internal server error", i.error))

\* The CallToolRequestSchema handler after callAgent has settled.
RpcFinish(req, i) ==
  IF i.phase = "returned"
  THEN Answer(req, 0, ToolResult(RpcResponseText(i.result), FALSE))
  ELSE Answer(req, 0, ToolResult("Error: " \o i.error, TRUE))

\* The continuation of whoever awaits the callAgent promise.
Finish(req, i) ==
  CASE req.route = "rpc" -> RpcFinish(req, i)
    [] req.route = "tools" -> RestFinish(req, i)
    [] OTHER -> Answer(req, 0, NoResp)

\* Requests are numbered in the order the server takes them up.
Arrived(r) ==
  /\ reqs[r].st = "new"
  /\ \A q \in AllIds : (q < r /\ (q \in ReqIds <=> r \in ReqIds)) => reqs[q].st /= "new"

\* The streaming connections already closed.
Closed == {q \in ReqIds : reqs[q].st = "closed"}

\* The health check placed behind authentication.
HealthHandlerAuthFirst(req, a, tools) ==
  IF ~a.success THEN sendAuthError([req EXCEPT !.auth = a], a.error)
  ELSE Answer(req, 200, HealthBody(tools))

\* The health check: answered before any authentication.
HealthHandler(req, a, tools) == Answer(req, 200, HealthBody(tools))

\* The discovery endpoints answering although authentication is disabled.
DiscoveryEnabledAlways(e) == TRUE

\* MCP_AUTH_MODE !== 'none': the discovery endpoints are served.
DiscoveryEnabled(e) == Or(e.MCP_AUTH_MODE, "oauth2") /= "none"

\* The body of /.well-known/oauth-protected-resource: resource, and the
\* client-credentials grant only.
MetadataBody(e) ==
  [NoResp EXCEPT !.shape = "metadata",
                 !.text = Or(e.OAUTH2_AUDIENCE, "00000002-0000-0000-c000-000000000000")]

\* The /.well-known/oauth-protected-resource handler.
ProtectedResourceHandler(req, e) ==
  IF ~DiscoveryEnabled(e)
  THEN Answer(req, 404, ErrorBody("not_found", "OAuth not enabled"))
  ELSE Answer(req, 200, MetadataBody(e))

\* The body of /.well-known/openid-configuration.
ConfigBody(config) == [NoResp EXCEPT !.shape = "openid-configuration", !.config = config]

\* The /.well-known/openid-configuration handler after getOpenIDConfiguration
\* has settled.
DiscoveryFinish(req, g) ==
  IF g.pc = "returned" THEN Answer(req, 200, ConfigBody(g.result))
  ELSE Answer(req, 500, ErrorBody("internal_server_error",
                                  "Failed to retrieve OpenID configuration"))

\* The calls of getOpenIDConfiguration not made yet, and the next one.
FreeGets == {c \in GetIds : oidc.gets[c].pc = "idle"}
NextGet == CHOOSE c \in FreeGets : \A d \in FreeGets : c <= d

\* One request through the createServer callback, up to its response or to
\* the point where it waits for the body (REST) or holds the stream (SSE).
HttpHandle(r, method, url, h, body, sess, jwksUp) ==
  /\ proc = "listening"
  /\ Arrived(r)
  /\ \E route \in {Route(method, url)}, a \in {verifyAuth(h, env, jwksUp)} :
     LET req == [reqs[r] EXCEPT !.route = route, !.session = sess, !.after = Closed]
     IN CASE route = "options" ->
               /\ reqs' = [reqs EXCEPT ![r] = Answer(req, 200, NoResp)]
               /\ UNCHANGED <<agentClient, oidc>>
          [] route = "health" ->
               /\ reqs' = [reqs EXCEPT ![r] = HealthHandler(req, a, registry)]
               /\ UNCHANGED <<agentClient, oidc>>
          [] route = "protected-resource" ->
               /\ reqs' = [reqs EXCEPT ![r] = ProtectedResourceHandler(req, env)]
               /\ UNCHANGED <<agentClient, oidc>>
          [] route = "openid" ->
               /\ UNCHANGED agentClient
               /\ IF ~DiscoveryEnabled(env)
                  THEN /\ reqs' = [reqs EXCEPT ![r] =
                                     Answer(req, 404, ErrorBody("not_found",
                                       "OpenID Connect Discovery not available when authentication is disabled"))]
                       /\ UNCHANGED oidc
                  ELSE /\ FreeGets /= {}
                       /\ \E s \in {GetStart(oidc.cache, oidc.now, env, r)} :
                            /\ oidc' = [oidc EXCEPT !.gets[NextGet] = s.get, !.cache = s.cache]
                            /\ reqs' = [reqs EXCEPT ![r] =
                                          IF s.get.pc = "fetch" THEN [req EXCEPT !.st = "discovery"]
                                          ELSE DiscoveryFinish(req, s.get)]
          [] route = "openapi" ->
               /\ reqs' = [reqs EXCEPT ![r] = Answer(req, 200, OpenApiBody(registry))]
               /\ UNCHANGED <<agentClient, oidc>>
          [] route = "sse" ->
               IF ~a.success
               THEN /\ reqs' = [reqs EXCEPT ![r] = sendAuthError([req EXCEPT !.auth = a], a.error)]
                    /\ UNCHANGED <<agentClient, oidc>>
               ELSE /\ reqs' = [reqs EXCEPT ![r] = [req EXCEPT !.auth = a, !.st = "open"]]
                    /\ agentClient' = SseStoreTokens(agentClient, a)
                    /\ UNCHANGED oidc
          [] route = "tools" ->
               /\ reqs' = [reqs EXCEPT ![r] =
                             IF ~a.success THEN sendAuthError([req EXCEPT !.auth = a], a.error)
                             ELSE [req EXCEPT !.auth = a, !.st = "body",
                                              !.toolName = url.name, !.body = body]]
               /\ UNCHANGED <<agentClient, oidc>>
          [] OTHER ->
               /\ reqs' = [reqs EXCEPT ![r] = Answer(req, 404, ErrorBody("error", "Not found"))]
               /\ UNCHANGED <<agentClient, oidc>>
  /\ UNCHANGED <<env, inv, calls, registry, listing, proc, oauth2, cartCache>>

\* The createServer callback for one request.
HttpRequest(r, method, url, h, body, sess, jwksUp) ==
  /\ HttpHandle(r, method, url, h, body, sess, jwksUp)
  /\ UNCHANGED authRes

\* req.on('end') of POST /tools/{name}: parse, store the tokens, route, and
\* start callAgent (its first fetch is issued before the handler yields).
RestEnd(r) ==
  /\ reqs[r].st = "body"
  /\ LET req == reqs[r] IN
     IF ~req.body.json
     THEN /\ reqs' = [reqs EXCEPT ![r] =
                        Answer(req, 500, ErrorBody("Internal server error", "Unexpected token"))]
          /\ UNCHANGED <<agentClient, inv, calls>>
     ELSE LET client == RestStoreTokens(agentClient, req.auth)
              route == RestRoute(req.toolName, req.body.args)
              i == CallAgentStart(route.agent, route.data, DefaultRetries)
          IN /\ agentClient' = client
             /\ IF ~route.known
                THEN /\ reqs' = [reqs EXCEPT ![r] =
                                   Answer(req, 404, ErrorBody("error", "Unknown tool: " \o req.toolName))]
                     /\ UNCHANGED <<inv, calls>>
                ELSE /\ inv' = [inv EXCEPT ![r] = i]
                     /\ IF i.phase = "fetch"
                        THEN /\ calls' = calls \cup {Attempt(r, i, client)}
                             /\ reqs' = [reqs EXCEPT ![r].st = "calling"]
                        ELSE /\ calls' = calls
                             /\ reqs' = [reqs EXCEPT ![r] = RestFinish(req, i)]
  /\ UNCHANGED <<env, authRes, registry, listing, oidc, proc, oauth2, cartCache>>

\* One fetch of callAgent settles: a 2xx JSON body returns it; anything else
\* is caught, and either is the last attempt (throw) or starts the backoff.
FetchSettle(r, outcome) ==
  /\ inv[r].phase = "fetch"
  /\ LET i == inv[r] IN
     IF outcome.ok
     THEN LET j == [i EXCEPT !.phase = "returned", !.result = outcome.result]
          IN /\ inv' = [inv EXCEPT ![r] = j]
             /\ reqs' = [reqs EXCEPT ![r] = Finish(reqs[r], j)]
     ELSE IF IsLastAttempt(i.attempt, i.retries)
     THEN LET j == [i EXCEPT !.phase = "thrown", !.lastError = outcome.message,
                             !.error = ExhaustedMessage(i.retries, outcome.message)]
          IN /\ inv' = [inv EXCEPT ![r] = j]
             /\ reqs' = [reqs EXCEPT ![r] = Finish(reqs[r], j)]
     ELSE /\ inv' = [inv EXCEPT ![r] =
                       [i EXCEPT !.phase = "backoff", !.lastError = outcome.message,
                                 !.waits = Append(i.waits, BackoffDelay(i.attempt))]]
          /\ UNCHANGED reqs
  /\ UNCHANGED <<env, agentClient, calls, authRes, registry, listing, oidc, proc, oauth2, cartCache>>

\* The backoff timer fires: the loop's next iteration builds its headers
\* from the client as it is now and issues the next fetch.
BackoffElapse(r) ==
  /\ inv[r].phase = "backoff"
  /\ LET i == [inv[r] EXCEPT !.attempt = @ + 1] IN
     IF LoopContinues(i.attempt, i.retries)
     THEN /\ inv' = [inv EXCEPT ![r] = [i EXCEPT !.phase = "fetch"]]
          /\ calls' = calls \cup {Attempt(r, i, agentClient)}
          /\ UNCHANGED reqs
     ELSE LET j == [i EXCEPT !.phase = "returned"]
          IN /\ inv' = [inv EXCEPT ![r] = j]
             /\ reqs' = [reqs EXCEPT ![r] = Finish(reqs[r], j)]
             /\ UNCHANGED calls
  /\ UNCHANGED <<env, agentClient, authRes, registry, listing, oidc, proc, oauth2, cartCache>>

\* req.on('close') of POST /sse: the handler only logs.
SseClose(r) ==
  /\ reqs[r].st = "open"
  /\ reqs' = [reqs EXCEPT ![r].st = "closed"]
  /\ UNCHANGED <<env, agentClient, inv, calls, authRes, registry, listing, oidc, proc, oauth2, cartCache>>

\* The Server hands a tools/call request of a connected session to the
\* CallToolRequestSchema handler.
RpcToolsCall(r, sess, name, args) ==
  /\ Arrived(r)
  /\ sess \in ReqIds /\ reqs[sess].st = "open"
  /\ LET req == [reqs[r] EXCEPT !.route = "rpc", !.toolName = name,
                                !.body = JsonBody(args), !.session = sess,
                                !.after = Closed,
                                !.auth = reqs[sess].auth, !.delivered = TRUE]
         route == RpcRoute(name, args)
         i == CallAgentStart(route.agent, route.data, DefaultRetries)
     IN IF ~route.known
        THEN /\ reqs' = [reqs EXCEPT ![r] =
                           Answer(req, 0, ToolResult("Error: Unknown tool: " \o name, TRUE))]
             /\ UNCHANGED <<inv, calls>>
        ELSE /\ inv' = [inv EXCEPT ![r] = i]
             /\ IF i.phase = "fetch"
                THEN /\ calls' = calls \cup {Attempt(r, i, agentClient)}
                     /\ reqs' = [reqs EXCEPT ![r] = [req EXCEPT !.st = "calling"]]
                ELSE /\ calls' = calls
                     /\ reqs' = [reqs EXCEPT ![r] = RpcFinish(req, i)]
  /\ UNCHANGED <<env, agentClient, authRes, registry, listing, oidc, proc, oauth2, cartCache>>

\* The tools/call requests of a session whose handler has started and has
\* not yet produced its response.
InFlight(sess) ==
  {q \in RpcIds : reqs[q].session = sess /\ reqs[q].st = "calling"}

\* The ListToolsRequestSchema handler: counts the call and returns the
\* registry's tools; `overtook` keeps the tools/call requests that were still
\* being handled when a tools/list was answered.
ListToolsHandler(l, tools, pending) ==
  [callCount |-> l.callCount + 1,
   returned |-> l.returned \cup {ListToolsResult(tools)},
   overtook |-> l.overtook \cup pending]

ListTools ==
  /\ listing.callCount < MaxList
  /\ listing' = ListToolsHandler(listing, registry, {})
  /\ UNCHANGED <<env, agentClient, reqs, inv, calls, authRes, registry, oidc, proc, oauth2, cartCache>>

\* The Server hands a tools/list request of a connected session to the
\* ListToolsRequestSchema handler; nothing holds it back while an earlier
\* tools/call of the session awaits its backend.
RpcToolsList(sess) ==
  /\ sess \in ReqIds /\ reqs[sess].st = "open"
  /\ listing.callCount < MaxList
  /\ listing' = ListToolsHandler(listing, registry, InFlight(sess))
  /\ UNCHANGED <<env, agentClient, reqs, inv, calls, authRes, registry, oidc, proc, oauth2, cartCache>>

\* getOpenIDConfiguration called directly, up to its return or its fetch.
GetOpenIDConfiguration ==
  /\ FreeGets /= {}
  /\ \E s \in {GetStart(oidc.cache, oidc.now, env, 0)} :
       oidc' = [oidc EXCEPT !.gets[NextGet] = s.get, !.cache = s.cache]
  /\ UNCHANGED <<env, agentClient, reqs, inv, calls, authRes, registry, listing, proc, oauth2, cartCache>>

\* The upstream fetch of one getOpenIDConfiguration call settles; the call
\* returns or throws, and the request it serves is answered.
UpstreamSettle(c, outcome) ==
  /\ oidc.gets[c].pc = "fetch"
  /\ \E s \in {GetSettle(oidc.gets[c], oidc.cache, outcome)} :
       /\ oidc' = [oidc EXCEPT !.gets[c] = s.get, !.cache = s.cache]
       /\ IF s.get.req \in ReqIds
          THEN reqs' = [reqs EXCEPT ![s.get.req] = DiscoveryFinish(reqs[s.get.req], s.get)]
          ELSE UNCHANGED reqs
  /\ UNCHANGED <<env, agentClient, inv, calls, authRes, registry, listing, proc, oauth2, cartCache>>

\* Time passes.
Tick(d) ==
  /\ oidc.ticks < MaxTicks
  /\ oidc' = [oidc EXCEPT !.now = @ + d, !.ticks = @ + 1]
  /\ UNCHANGED <<env, agentClient, reqs, inv, calls, authRes, registry, listing, proc, oauth2, cartCache>>

\* clearConfigCache: cachedConfig = null; cacheTimestamp = 0;
ClearConfigCache ==
  /\ oidc.cache /= EmptyCache
  /\ oidc' = [oidc EXCEPT !.cache = EmptyCache]
  /\ UNCHANGED <<env, agentClient, reqs, inv, calls, authRes, registry, listing, proc, oauth2, cartCache>>

\* Module initialisation: the configuration is validated, and the process
\* either exits (process.exit(1)) or goes on to main() and listens.
Startup ==
  /\ proc = "starting"
  /\ proc' = IF StartupOk(env) THEN "listening" ELSE "exited"
  /\ UNCHANGED <<env, agentClient, reqs, inv, calls, authRes, registry, listing, oidc, oauth2, cartCache>>

(***************************************************************************)
(* The OAuth2Client's operations, called by concurrent callers.            *)
(***************************************************************************)
CallerIds == 1..MaxCallers
TokenRequestIds == 1..MaxTokenRequests

\* new OAuth2Client(config): cachedToken = null, tokenRefreshPromise = null
NewOAuth2Client ==
  [cachedToken |-> NoAccessToken, tokenRefreshPromise |-> 0,
   requests |-> [k \in TokenRequestIds |-> NoTokenRequest],
   callers |-> [c \in CallerIds |-> NoCaller],
   now |-> StartTime, ticks |-> 0]

\* Callers are numbered in the order of their calls.
NextCaller(c) ==
  /\ oauth2.callers[c].pc = "idle"
  /\ \A d \in CallerIds : d < c => oauth2.callers[d].pc /= "idle"

\* getAccessToken(), up to its return or its first await.
GetAccessToken(c) ==
  /\ NextCaller(c)
  /\ StartsTokenRequest(oauth2) => FreeTokenRequests(oauth2) /= {}
  /\ oauth2' = getAccessTokenStart(oauth2, c, "getAccessToken")
  /\ UNCHANGED <<env, agentClient, reqs, inv, calls, authRes, registry, listing, oidc, proc,
                 cartCache>>

\* refreshToken(): this.cachedToken = null; return this.getAccessToken()
RefreshToken(c) ==
  /\ NextCaller(c)
  /\ \E o \in {[oauth2 EXCEPT !.cachedToken = NoAccessToken]} :
       /\ StartsTokenRequest(o) => FreeTokenRequests(o) /= {}
       /\ oauth2' = getAccessTokenStart(o, c, "refreshToken")
  /\ UNCHANGED <<env, agentClient, reqs, inv, calls, authRes, registry, listing, oidc, proc,
                 cartCache>>

\* clearCache(): this.cachedToken = null
ClearCache ==
  /\ oauth2.cachedToken.present
  /\ oauth2' = [oauth2 EXCEPT !.cachedToken = NoAccessToken]
  /\ UNCHANGED <<env, agentClient, reqs, inv, calls, authRes, registry, listing, oidc, proc,
                 cartCache>>

\* The token endpoint answers request k: fetchNewToken settles the promise
\* and the caller that started it runs its continuation first.
TokenSettle(k, response) ==
  /\ oauth2.requests[k].st = "pending"
  /\ \E result \in {fetchNewToken(response, oauth2.now)} :
     \E c \in {d \in CallerIds : oauth2.callers[d].pc = "initiator"
                                 /\ oauth2.callers[d].awaiting = k} :
       oauth2' = InitiatorContinue(
                   [oauth2 EXCEPT !.requests[k] = [st |-> "settled", result |-> result]],
                   c, result)
  /\ UNCHANGED <<env, agentClient, reqs, inv, calls, authRes, registry, listing, oidc, proc,
                 cartCache>>

\* A caller that awaited another caller's promise resumes.
WaiterResume(c) ==
  /\ oauth2.callers[c].pc = "waiting"
  /\ oauth2.requests[oauth2.callers[c].awaiting].st = "settled"
  /\ oauth2' = WaiterContinue(oauth2, c, oauth2.requests[oauth2.callers[c].awaiting].result)
  /\ UNCHANGED <<env, agentClient, reqs, inv, calls, authRes, registry, listing, oidc, proc,
                 cartCache>>

\* Time passes for the OAuth2Client.
OAuth2Tick(d) ==
  /\ oauth2.ticks < MaxTicks
  /\ oauth2' = [oauth2 EXCEPT !.now = @ + d, !.ticks = @ + 1]
  /\ UNCHANGED <<env, agentClient, reqs, inv, calls, authRes, registry, listing, oidc, proc,
                 cartCache>>

(***************************************************************************)
(* The CartCache's operations.  Callers pass item objects they have just   *)
(* built or objects they have passed before.                               *)
(***************************************************************************)
UserIds == {"u1", "u2"}
ObjIds == 1..MaxObjs

\* globalForCart.cartStore = new Map()
NewCartCache ==
  [objs |-> [o \in ObjIds |-> NoItem], carts |-> [u \in UserIds |-> NoCart]]

FreeObjs == {o \in ObjIds : ~cartCache.objs[o].alloc}
NextObj == CHOOSE o \in FreeObjs : \A q \in FreeObjs : o <= q

\* Quantities stay within the bound.
QuantitiesBounded(cc) == \A o \in ObjIds : cc.objs[o].quantity <= MaxQuantity

\* addItemToCart(userId, {id, price, quantity}) with a new object.
AddItemToCart(userId, id, price, quantity) ==
  /\ FreeObjs /= {}
  /\ \E cc \in {addItemToCart([cartCache EXCEPT !.objs[NextObj] = CartItem(id, price, quantity)],
                              userId, NextObj)} :
       /\ QuantitiesBounded(cc)
       /\ cartCache' = cc
  /\ UNCHANGED <<env, agentClient, reqs, inv, calls, authRes, registry, listing, oidc, proc,
                 oauth2>>

\* addItemToCart(userId, item) with an object the caller has passed before.
AddItemToCartAgain(userId, o) ==
  /\ cartCache.objs[o].alloc
  /\ \E cc \in {addItemToCart(cartCache, userId, o)} :
       /\ QuantitiesBounded(cc)
       /\ cartCache' = cc
  /\ UNCHANGED <<env, agentClient, reqs, inv, calls, authRes, registry, listing, oidc, proc,
                 oauth2>>

RemoveItemFromCart(userId, itemId) ==
  /\ cartCache' = removeItemFromCart(cartCache, userId, itemId)
  /\ UNCHANGED <<env, agentClient, reqs, inv, calls, authRes, registry, listing, oidc, proc,
                 oauth2>>

UpdateItemQuantity(userId, itemId, quantity) ==
  /\ cartCache' = updateItemQuantity(cartCache, userId, itemId, quantity)
  /\ UNCHANGED <<env, agentClient, reqs, inv, calls, authRes, registry, listing, oidc, proc,
                 oauth2>>

ClearCart(userId) ==
  /\ cartCache' = clearCart(cartCache, userId)
  /\ UNCHANGED <<env, agentClient, reqs, inv, calls, authRes, registry, listing, oidc, proc,
                 oauth2>>

ClearAllCarts ==
  /\ cartCache' = clearAllCarts(cartCache)
  /\ UNCHANGED <<env, agentClient, reqs, inv, calls, authRes, registry, listing, oidc, proc,
                 oauth2>>

(***************************************************************************)
(* Spec: the HTTP server as written.                                       *)
(***************************************************************************)
Url(base, name) == [base |-> base, name |-> name]

Target(method, url, body) == [method |-> method, url |-> url, body |-> body]

\* The requests clients send: a connection, tool calls (a registered tool, an
\* unregistered one, a body that is not JSON), a health probe, a preflight.
Targets ==
  {Target("POST", Url("/sse", ""), NoBody),
   Target("POST", Url("/tools/", "view_cart"), JsonBody(NoArgs)),
   Target("POST", Url("/tools/", "delete_everything"), JsonBody(NoArgs)),
   Target("POST", Url("/tools/", "view_cart"), NoBody),
   Target("GET", Url("/health", ""), NoBody),
   Target("OPTIONS", Url("/sse", ""), NoBody)}

Headers(a, u, k) ==
  [authorization |-> a, xUserToken |-> u, xForwardedUserToken |-> NoHeader,
   xMcpApiKey |-> k]

\* The credentials a client presents: both tokens, a client token alone, a
\* client token with a user token that fails, a client token that fails, the
\* API key, nothing.
GwHeaders ==
  {Headers(Bearer("cA"), Bearer("uA"), UNDEF),
   Headers(Bearer("cB"), NoHeader, UNDEF),
   Headers(Bearer("cB"), Bearer("uExpired"), UNDEF),
   Headers(Bearer("cExpired"), Bearer("uA"), UNDEF),
   Headers(NoHeader, NoHeader, "secret"),
   Headers(NoHeader, NoHeader, UNDEF)}

ResultA == [id |-> "a", isArr |-> TRUE, msgs |-> <<UNDEF, "Found milk">>]
ResultB == [id |-> "b", isArr |-> FALSE, msgs |-> <<>>]
ResultC == [id |-> "c", isArr |-> TRUE, msgs |-> <<"thinking", UNDEF>>]

Outcomes ==
  {OutcomeOk(ResultA), OutcomeOk(ResultB), OutcomeOk(ResultC),
   HttpError(503, "unavailable"), OutcomeFail("connect ECONNREFUSED")}

GwOutcomes == {OutcomeOk(ResultA), OutcomeFail("connect ECONNREFUSED")}

NoContext ==
  [clientId |-> UNDEF, clientScopes |-> <<>>, authMethod |-> UNDEF, userId |-> UNDEF,
   userEmail |-> UNDEF, userName |-> UNDEF, userToken |-> UNDEF]

NoAuthRes == [checked |-> FALSE, req |-> 0, h |-> NoHeaders, jwksUp |-> TRUE, r |-> NoAuth,
              ok |-> FALSE, context |-> NoContext, message |-> UNDEF]

GwEnvs == {e \in {[BaseEnv EXCEPT !.MCP_AUTH_MODE = m] : m \in AuthModes} : StartupOk(e)}

Init ==
  /\ env \in GwEnvs
  /\ agentClient = NewClient
  /\ reqs = [r \in AllIds |-> NewReq]
  /\ inv = [r \in AllIds |-> NoInv]
  /\ calls = {}
  /\ authRes = NoAuthRes
  /\ registry = mcpTools
  /\ listing = NoListing
  /\ oidc = NoOidc
  /\ proc = "listening"
  /\ oauth2 = NewOAuth2Client
  /\ cartCache = NewCartCache

\* The client of an open session posts a JSON-RPC message to the endpoint the
\* transport announced, /message.
PostMessage(r, sess, h) ==
  /\ sess \in ReqIds /\ reqs[sess].st = "open"
  /\ HttpRequest(r, "POST", Url("/message", ""), h, JsonBody(NoArgs), sess, TRUE)

Next ==
  \E r \in ReqIds :
    \/ \E t \in Targets, h \in GwHeaders :
         HttpRequest(r, t.method, t.url, h, t.body, 0, TRUE)
    \/ \E sess \in ReqIds, h \in GwHeaders : PostMessage(r, sess, h)
    \/ RestEnd(r)
    \/ \E o \in GwOutcomes : FetchSettle(r, o)
    \/ BackoffElapse(r)
    \/ SseClose(r)

Spec == Init /\ [][Next]_vars

(***************************************************************************)
(* SpecAuth: verifyAuth and verifyDualTokenAuth applied to one request.    *)
(***************************************************************************)
AuthHeaders ==
  {[authorization |-> a, xUserToken |-> u, xForwardedUserToken |-> f, xMcpApiKey |-> k] :
     a \in {NoHeader, Bare("cA")} \cup {Bearer(t) : t \in ClientTokens},
     u \in {NoHeader, Bare("uA"), Bare("")} \cup {Bearer(t) : t \in UserTokens},
     f \in {NoHeader, Bearer("uB")},
     k \in {UNDEF, "secret", "wrong"}}

\* The deployments: every mode, with and without an API key, with and without
\* a client allowlist.
AuthEnvs ==
  {e \in {[BaseEnv EXCEPT !.MCP_AUTH_MODE = m, !.MCP_API_KEY = k,
                          !.ALLOWED_MCP_CLIENTS = l] :
            m \in AuthModes, k \in {"secret", UNDEF},
            l \in {Unset, EnvList(<<" appA">>)}} : StartupOk(e)}

AuthInit ==
  /\ env \in AuthEnvs
  /\ agentClient = NewClient
  /\ reqs = [r \in AllIds |-> NewReq]
  /\ inv = [r \in AllIds |-> NoInv]
  /\ calls = {}
  /\ authRes = NoAuthRes
  /\ registry = mcpTools
  /\ listing = NoListing
  /\ oidc = NoOidc
  /\ proc = "listening"
  /\ oauth2 = NewOAuth2Client
  /\ cartCache = NewCartCache

AuthCheck(h, jwksUp) ==
  /\ ~authRes.checked
  /\ \E d \in {verifyDualTokenAuth(h, env, jwksUp)} :
       authRes' = [checked |-> TRUE, req |-> 0, h |-> h, jwksUp |-> jwksUp,
                   r |-> verifyAuth(h, env, jwksUp), ok |-> d.ok,
                   context |-> IF d.ok THEN d.context ELSE NoContext,
                   message |-> IF d.ok THEN UNDEF ELSE d.message]
  /\ UNCHANGED <<env, agentClient, reqs, inv, calls, registry, listing, oidc, proc, oauth2, cartCache>>

AuthNext == \E h \in AuthHeaders, jwksUp \in BOOLEAN : AuthCheck(h, jwksUp)

SpecAuth == AuthInit /\ [][AuthNext]_vars

(***************************************************************************)
(* SpecVerify: the client-token verifiers on tokens of every shape, under  *)
(* every allowlist and required-scope configuration.                       *)
(***************************************************************************)
\* The values of ALLOWED_MCP_CLIENTS: unset, " appA", "app,id2 ", and the
\* empty string.
AllowLists == {Unset, EnvList(<<" appA">>), EnvList(<<"app", "id2 ">>), EnvList(<<"">>)}

\* The values of REQUIRED_MCP_SCOPES: unset, "mcp:read, mcp:write".
ScopeLists == {Unset, EnvList(<<"mcp:read", " mcp:write">>)}

VerifyEnvs ==
  {e \in {[BaseEnv EXCEPT !.MCP_AUTH_MODE = m, !.ALLOWED_MCP_CLIENTS = l,
                          !.REQUIRED_MCP_SCOPES = q] :
            m \in AuthModes, l \in AllowLists, q \in ScopeLists} : StartupOk(e)}

VerifyHeaders ==
  {Headers(a, u, k) :
     a \in {NoHeader} \cup {Bearer(t) : t \in VerifierTokens},
     u \in {NoHeader, Bearer("uA"), Bearer("uClientGty")},
     k \in {UNDEF, "secret"}}

VerifyInit ==
  /\ env \in VerifyEnvs
  /\ agentClient = NewClient
  /\ reqs = [r \in AllIds |-> NewReq]
  /\ inv = [r \in AllIds |-> NoInv]
  /\ calls = {}
  /\ authRes = NoAuthRes
  /\ registry = mcpTools
  /\ listing = NoListing
  /\ oidc = NoOidc
  /\ proc = "listening"
  /\ oauth2 = NewOAuth2Client
  /\ cartCache = NewCartCache

VerifyNext == \E h \in VerifyHeaders, jwksUp \in BOOLEAN : AuthCheck(h, jwksUp)

SpecVerify == VerifyInit /\ [][VerifyNext]_vars

(***************************************************************************)
(* SpecKeys: the HTTP server while the identity provider's JWKS endpoint   *)
(* comes and goes and tokens name keys it does not publish; authRes keeps  *)
(* what the latest request presented.                                      *)
(***************************************************************************)
KeyTargets ==
  {Target("POST", Url("/sse", ""), NoBody),
   Target("POST", Url("/tools/", "view_cart"), JsonBody(NoArgs)),
   Target("GET", Url("/health", ""), NoBody)}

KeyHeaders ==
  {Headers(Bearer(t), u, UNDEF) : t \in {"cA", "cNoKey", "cBadSig", "cExpired"},
                                   u \in {NoHeader, Bearer("uA")}}

KeyEnvs == {[BaseEnv EXCEPT !.MCP_AUTH_MODE = m] : m \in {"oauth2", "hybrid"}}

KeyRequest(r, t, h, jwksUp) ==
  /\ HttpHandle(r, t.method, t.url, h, t.body, 0, jwksUp)
  /\ authRes' = [NoAuthRes EXCEPT !.checked = TRUE, !.req = r, !.h = h,
                                  !.jwksUp = jwksUp]

KeyInit ==
  /\ env \in KeyEnvs
  /\ agentClient = NewClient
  /\ reqs = [r \in AllIds |-> NewReq]
  /\ inv = [r \in AllIds |-> NoInv]
  /\ calls = {}
  /\ authRes = NoAuthRes
  /\ registry = mcpTools
  /\ listing = NoListing
  /\ oidc = NoOidc
  /\ proc = "listening"
  /\ oauth2 = NewOAuth2Client
  /\ cartCache = NewCartCache

KeyNext ==
  \E r \in ReqIds :
    \/ \E t \in KeyTargets, h \in KeyHeaders, jwksUp \in BOOLEAN : KeyRequest(r, t, h, jwksUp)
    \/ RestEnd(r)
    \/ \E o \in GwOutcomes : FetchSettle(r, o)
    \/ BackoffElapse(r)
    \/ SseClose(r)

SpecKeys == KeyInit /\ [][KeyNext]_vars

(***************************************************************************)
(* SpecDiscovery: getOpenIDConfiguration called by concurrent callers      *)
(* while time passes, the upstream provider answers or fails, and the      *)
(* cache is cleared.                                                       *)
(***************************************************************************)
\* Upstream documents: a full provider document, and one without a token
\* endpoint.
UpstreamA ==
  [NoConfig EXCEPT
     !.present = TRUE, !.issuer = "idp",
     !.authorization_endpoint = "https://idp/authorize",
     !.userinfo_endpoint = "https://idp/userinfo",
     !.end_session_endpoint = "https://idp/logout",
     !.token_endpoint = "https://idp/token", !.jwks_uri = "https://idp/jwks",
     !.grant_types_supported = List(<<"authorization_code", "client_credentials">>),
     !.response_types_supported = List(<<"code", "id_token">>),
     !.rest = {"scopes_supported"}]

UpstreamB ==
  [NoConfig EXCEPT
     !.present = TRUE, !.issuer = "idp2",
     !.authorization_endpoint = "https://idp2/authorize",
     !.jwks_uri = "https://idp2/jwks",
     !.grant_types_supported = List(<<"implicit">>)]

UpstreamOutcomes ==
  {UpOk(UpstreamA), UpOk(UpstreamB), UpOk(NoConfig), UpFail("fetch failed")}

\* The steps of the clock: a millisecond, a millisecond short of the TTL, the TTL.
TickSteps == {1, CACHE_TTL - 1, CACHE_TTL}

\* The deployments: with and without an upstream configuration URL, with and
\* without a JWKS URI.
DiscoveryEnvs ==
  {[BaseEnv EXCEPT !.MCP_AUTH_MODE = "api-key", !.OAUTH2_OPENID_CONFIG_URL = u,
                   !.OAUTH2_JWKS_URI = j] :
     u \in {UNDEF, "https://idp/.well-known/openid-configuration"},
     j \in {UNDEF, "https://idp/jwks"}}

DiscoveryInit ==
  /\ env \in DiscoveryEnvs
  /\ agentClient = NewClient
  /\ reqs = [r \in AllIds |-> NewReq]
  /\ inv = [r \in AllIds |-> NoInv]
  /\ calls = {}
  /\ authRes = NoAuthRes
  /\ registry = mcpTools
  /\ listing = NoListing
  /\ oidc = NoOidc
  /\ proc = "listening"
  /\ oauth2 = NewOAuth2Client
  /\ cartCache = NewCartCache

DiscoveryNext ==
  \/ GetOpenIDConfiguration
  \/ \E c \in GetIds, o \in UpstreamOutcomes : UpstreamSettle(c, o)
  \/ \E d \in TickSteps : Tick(d)
  \/ ClearConfigCache

SpecDiscovery == DiscoveryInit /\ [][DiscoveryNext]_vars

(***************************************************************************)
(* SpecWellKnown: the discovery endpoints of the HTTP server in every      *)
(* authentication mode.                                                    *)
(***************************************************************************)
WellKnownTargets ==
  {Target("GET", Url("/.well-known/openid-configuration", ""), NoBody),
   Target("GET", Url("/sse/.well-known/openid-configuration", ""), NoBody),
   Target("GET", Url("/.well-known/oauth-protected-resource", ""), NoBody),
   Target("GET", Url("/sse/.well-known/oauth-protected-resource", ""), NoBody),
   Target("POST", Url("/.well-known/openid-configuration", ""), NoBody),
   Target("GET", Url("/health", ""), NoBody)}

WellKnownHeaders == {NoHeaders, Headers(Bearer("cA"), NoHeader, UNDEF)}

WellKnownEnvs ==
  {e \in {[BaseEnv EXCEPT !.MCP_AUTH_MODE = m, !.OAUTH2_OPENID_CONFIG_URL = u,
                          !.OAUTH2_JWKS_URI = j] :
            m \in AuthModes \cup {UNDEF},
            u \in {UNDEF, "https://idp/.well-known/openid-configuration"},
            j \in {UNDEF, "https://idp/jwks"}} : StartupOk(e)}

WellKnownInit ==
  /\ env \in WellKnownEnvs
  /\ agentClient = NewClient
  /\ reqs = [r \in AllIds |-> NewReq]
  /\ inv = [r \in AllIds |-> NoInv]
  /\ calls = {}
  /\ authRes = NoAuthRes
  /\ registry = mcpTools
  /\ listing = NoListing
  /\ oidc = NoOidc
  /\ proc = "listening"
  /\ oauth2 = NewOAuth2Client
  /\ cartCache = NewCartCache

WellKnownNext ==
  \/ \E r \in ReqIds, t \in WellKnownTargets, h \in WellKnownHeaders :
       HttpRequest(r, t.method, t.url, h, t.body, 0, TRUE)
  \/ \E c \in GetIds, o \in UpstreamOutcomes : UpstreamSettle(c, o)
  \/ \E d \in TickSteps : Tick(d)

SpecWellKnown == WellKnownInit /\ [][WellKnownNext]_vars

(***************************************************************************)
(* SpecHealth: health probes among other requests, in every                *)
(* authentication mode and with every kind of credential; authRes keeps    *)
(* what the latest request presented.                                      *)
(***************************************************************************)
HealthTargets ==
  {Target("GET", Url("/health", ""), NoBody),
   Target("GET", Url("/", ""), NoBody),
   Target("POST", Url("/sse", ""), NoBody),
   Target("POST", Url("/tools/", "view_cart"), JsonBody(NoArgs))}

HealthHeaders ==
  {NoHeaders,
   Headers(Bearer("cA"), NoHeader, UNDEF),
   Headers(Bearer("cExpired"), NoHeader, UNDEF),
   Headers(Bare("cA"), NoHeader, UNDEF),
   Headers(NoHeader, NoHeader, "secret"),
   Headers(NoHeader, NoHeader, "wrong")}

HealthNext ==
  \E r \in ReqIds :
    \/ \E t \in HealthTargets, h \in HealthHeaders, jwksUp \in BOOLEAN :
         KeyRequest(r, t, h, jwksUp)
    \/ RestEnd(r)
    \/ \E o \in GwOutcomes : FetchSettle(r, o)
    \/ BackoffElapse(r)
    \/ SseClose(r)

SpecHealth == Init /\ [][HealthNext]_vars

(***************************************************************************)
(* SpecStartup: the process from its start, under every configuration,     *)
(* complete or not.                                                        *)
(***************************************************************************)
StartupEnvs ==
  {[BaseEnv EXCEPT !.MCP_AUTH_MODE = m, !.OAUTH2_JWKS_URI = j, !.MCP_API_KEY = k] :
     m \in AuthModes \cup {UNDEF},
     j \in {UNDEF, "", "https://idp/jwks"},
     k \in {UNDEF, "", "secret"}}

StartupTargets ==
  {Target("POST", Url("/sse", ""), NoBody),
   Target("POST", Url("/tools/", "view_cart"), JsonBody(NoArgs))}

StartupHeaders ==
  {NoHeaders,
   Headers(Bearer("cA"), NoHeader, UNDEF),
   Headers(NoHeader, NoHeader, "secret"),
   Headers(Bearer("cExpired"), NoHeader, "wrong")}

StartupInit ==
  /\ env \in StartupEnvs
  /\ agentClient = NewClient
  /\ reqs = [r \in AllIds |-> NewReq]
  /\ inv = [r \in AllIds |-> NoInv]
  /\ calls = {}
  /\ authRes = NoAuthRes
  /\ registry = mcpTools
  /\ listing = NoListing
  /\ oidc = NoOidc
  /\ proc = "starting"
  /\ oauth2 = NewOAuth2Client
  /\ cartCache = NewCartCache

StartupNext ==
  \/ Startup
  \/ \E r \in ReqIds :
       \/ \E t \in StartupTargets, h \in StartupHeaders :
            HttpRequest(r, t.method, t.url, h, t.body, 0, TRUE)
       \/ RestEnd(r)
       \/ \E o \in GwOutcomes : FetchSettle(r, o)
       \/ BackoffElapse(r)
       \/ SseClose(r)

SpecStartup == StartupInit /\ [][StartupNext]_vars

(***************************************************************************)
(* SpecToken: one OAuth2Client used by concurrent callers while time       *)
(* passes and the token endpoint answers, refuses or cannot be reached.    *)
(***************************************************************************)
TokenResponses ==
  {TokenBody("tA", 0), TokenBody("tC", 300), TokenBody(UNDEF, 3600),
   TokenStatus(401, "access_denied"), TokenNetworkError("fetch failed")}

\* One second; up to five minutes before a one-hour token expires.
OAuth2TickSteps == {1000, DefaultExpiresIn * 1000 - BufferMs}

TokenInit ==
  /\ env = BaseEnv
  /\ agentClient = NewClient
  /\ reqs = [r \in AllIds |-> NewReq]
  /\ inv = [r \in AllIds |-> NoInv]
  /\ calls = {}
  /\ authRes = NoAuthRes
  /\ registry = mcpTools
  /\ listing = NoListing
  /\ oidc = NoOidc
  /\ proc = "listening"
  /\ oauth2 = NewOAuth2Client
  /\ cartCache = NewCartCache

TokenNext ==
  \/ \E c \in CallerIds : GetAccessToken(c)
  \/ \E c \in CallerIds : RefreshToken(c)
  \/ \E c \in CallerIds : WaiterResume(c)
  \/ \E k \in TokenRequestIds, response \in TokenResponses : TokenSettle(k, response)
  \/ \E d \in OAuth2TickSteps : OAuth2Tick(d)
  \/ ClearCache

SpecToken == TokenInit /\ [][TokenNext]_vars

(***************************************************************************)
(* SpecCart: the CartCache under every sequence of its operations.         *)
(***************************************************************************)
ItemIds == {"milk", "eggs"}
Prices == {2, 5}
Quantities == {1}
NewQuantities == {0, 3}

CartInit ==
  /\ env = BaseEnv
  /\ agentClient = NewClient
  /\ reqs = [r \in AllIds |-> NewReq]
  /\ inv = [r \in AllIds |-> NoInv]
  /\ calls = {}
  /\ authRes = NoAuthRes
  /\ registry = mcpTools
  /\ listing = NoListing
  /\ oidc = NoOidc
  /\ proc = "listening"
  /\ oauth2 = NewOAuth2Client
  /\ cartCache = NewCartCache

CartNext ==
  \/ \E u \in UserIds, id \in ItemIds, price \in Prices, q \in Quantities :
       AddItemToCart(u, id, price, q)
  \/ \E u \in UserIds, o \in ObjIds : AddItemToCartAgain(u, o)
  \/ \E u \in UserIds, id \in ItemIds : RemoveItemFromCart(u, id)
  \/ \E u \in UserIds, id \in ItemIds, q \in NewQuantities : UpdateItemQuantity(u, id, q)
  \/ \E u \in UserIds : ClearCart(u)
  \/ ClearAllCarts

SpecCart == CartInit /\ [][CartNext]_vars

(***************************************************************************)
(* SpecModes: verifyAuth under every value of MCP_AUTH_MODE, the four      *)
(* modes, the default and values that are no mode, with the API key set,   *)
(* empty or unset, for every combination of credentials.                   *)
(***************************************************************************)
ModeValues == AuthModes \cup {UNDEF, "", "OAuth2", "apikey"}

ModeEnvs ==
  {e \in {[BaseEnv EXCEPT !.MCP_AUTH_MODE = m, !.MCP_API_KEY = k] :
            m \in ModeValues, k \in {UNDEF, "", "secret"}} : StartupOk(e)}

ModeHeaders ==
  {Headers(a, u, k) :
     a \in {NoHeader, Bare("cA"), Bearer("cA"), Bearer("cExpired")},
     u \in {NoHeader, Bearer("uA")},
     k \in {UNDEF, "", "secret", "wrong"}}

ModeInit ==
  /\ env \in ModeEnvs
  /\ agentClient = NewClient
  /\ reqs = [r \in AllIds |-> NewReq]
  /\ inv = [r \in AllIds |-> NoInv]
  /\ calls = {}
  /\ authRes = NoAuthRes
  /\ registry = mcpTools
  /\ listing = NoListing
  /\ oidc = NoOidc
  /\ proc = "listening"
  /\ oauth2 = NewOAuth2Client
  /\ cartCache = NewCartCache

ModeNext == \E h \in ModeHeaders, jwksUp \in BOOLEAN : AuthCheck(h, jwksUp)

SpecModes == ModeInit /\ [][ModeNext]_vars

(***************************************************************************)
(* SpecPair: verifyAuth applied to one request, and the HTTP server        *)
(* receiving requests that differ from it in their X-User-Token header     *)
(* only.                                                                   *)
(***************************************************************************)
PairEnvs == {e \in {[BaseEnv EXCEPT !.MCP_AUTH_MODE = m] : m \in AuthModes} : StartupOk(e)}

PairUserTokens ==
  {NoHeader, Bare("uA"), Bare(""), Bearer("uA"), Bearer("uB"), Bearer("uExpired"),
   Bearer("uBadSig"), Bearer("cA")}

PairHeaders ==
  {Headers(a, u, k) :
     a \in {NoHeader, Bearer("cA"), Bearer("cB"), Bearer("cExpired"), Bearer("cBadSig")},
     u \in PairUserTokens,
     k \in {UNDEF, "secret"}}

PairInit ==
  /\ env \in PairEnvs
  /\ agentClient = NewClient
  /\ reqs = [r \in AllIds |-> NewReq]
  /\ inv = [r \in AllIds |-> NoInv]
  /\ calls = {}
  /\ authRes = NoAuthRes
  /\ registry = mcpTools
  /\ listing = NoListing
  /\ oidc = NoOidc
  /\ proc = "listening"
  /\ oauth2 = NewOAuth2Client
  /\ cartCache = NewCartCache

\* A request with the headers verifyAuth was applied to, but for X-User-Token.
PairRequest(r, u) ==
  /\ authRes.checked
  /\ HttpHandle(r, "POST", Url("/tools/", "view_cart"),
                [authRes.h EXCEPT !.xUserToken = u], JsonBody(NoArgs), 0, authRes.jwksUp)
  /\ UNCHANGED authRes

PairNext ==
  \/ \E h \in PairHeaders, jwksUp \in BOOLEAN : AuthCheck(h, jwksUp)
  \/ \E r \in ReqIds, u \in PairUserTokens : PairRequest(r, u)

SpecPair == PairInit /\ [][PairNext]_vars

(***************************************************************************)
(* SpecCallAgent: callAgent invoked directly, one invocation after the     *)
(* other, with every value of `retries`.                                   *)
(***************************************************************************)
RetryValues == {DefaultRetries} \cup (-1..MaxRetries)

CallAgent(r, agent, data, retries) ==
  /\ r \in ReqIds /\ Arrived(r)
  /\ \A q \in ReqIds : reqs[q].st \in {"new", "done"}
  /\ \E i \in {CallAgentStart(agent, data, retries)} :
       /\ inv' = [inv EXCEPT ![r] = i]
       /\ IF i.phase = "fetch"
          THEN /\ calls' = calls \cup {Attempt(r, i, agentClient)}
               /\ reqs' = [reqs EXCEPT ![r] = [reqs[r] EXCEPT !.route = "direct", !.st = "calling"]]
          ELSE /\ calls' = calls
               /\ reqs' = [reqs EXCEPT ![r] = Finish([reqs[r] EXCEPT !.route = "direct"], i)]
  /\ UNCHANGED <<env, agentClient, authRes, registry, listing, oidc, proc, oauth2, cartCache>>

CallAgentInit ==
  /\ env = BaseEnv
  /\ agentClient \in {NewClient, [accessToken |-> "cA", userToken |-> "uA"]}
  /\ reqs = [r \in AllIds |-> NewReq]
  /\ inv = [r \in AllIds |-> NoInv]
  /\ calls = {}
  /\ authRes = NoAuthRes
  /\ registry = mcpTools
  /\ listing = NoListing
  /\ oidc = NoOidc
  /\ proc = "listening"
  /\ oauth2 = NewOAuth2Client
  /\ cartCache = NewCartCache

CallAgentNext ==
  \E r \in ReqIds :
    \/ \E n \in RetryValues : CallAgent(r, "cart", [NoData EXCEPT !.action = "view"], n)
    \/ \E o \in Outcomes : FetchSettle(r, o)
    \/ BackoffElapse(r)

SpecCallAgent == CallAgentInit /\ [][CallAgentNext]_vars

(***************************************************************************)
(* SpecRpc: the HTTP server together with the Server's dispatch of         *)
(* tools/call requests to the registered handler.                          *)
(***************************************************************************)
MilkArgs == [NoArgs EXCEPT !.query = "milk", !.limit = "5"]

RpcTargets ==
  {Target("POST", Url("/sse", ""), NoBody),
   Target("POST", Url("/tools/", "search_products"), JsonBody(MilkArgs)),
   Target("POST", Url("/tools/", "view_cart"), JsonBody(NoArgs))}

RpcHeaders == {Headers(Bearer("cA"), Bearer("uA"), UNDEF), Headers(NoHeader, NoHeader, "secret")}

RpcOutcomes == {OutcomeOk(ResultA), OutcomeOk(ResultC), HttpError(503, "unavailable")}

RpcNext ==
  \/ \E r \in ReqIds :
       \/ \E t \in RpcTargets, h \in RpcHeaders :
            HttpRequest(r, t.method, t.url, h, t.body, 0, TRUE)
       \/ RestEnd(r)
       \/ SseClose(r)
  \/ \E r \in AllIds :
       \/ \E o \in RpcOutcomes : FetchSettle(r, o)
       \/ BackoffElapse(r)
  \/ \E r \in RpcIds, sess \in ReqIds :
       \E name \in {"search_products", "view_cart", "delete_everything"},
          args \in {NoArgs, MilkArgs} :
         RpcToolsCall(r, sess, name, args)

SpecRpc == Init /\ [][RpcNext]_vars

(***************************************************************************)
(* SpecRest: the REST front end alone, POST /tools/{name} with registered  *)
(* and unregistered names and with bodies that are and are not JSON.       *)
(***************************************************************************)
RestTargets ==
  {Target("POST", Url("/tools/", n), b) :
     n \in {"view_cart", "search_products", "delete_everything", ""},
     b \in {JsonBody(NoArgs), NoBody}}

RestNext ==
  \E r \in ReqIds :
    \/ \E t \in RestTargets, h \in GwHeaders :
         HttpRequest(r, t.method, t.url, h, t.body, 0, TRUE)
    \/ RestEnd(r)
    \/ \E o \in GwOutcomes : FetchSettle(r, o)
    \/ BackoffElapse(r)

SpecRest == Init /\ [][RestNext]_vars

(***************************************************************************)
(* SpecRegistry: the three listings of the registry (tools/list, /health,  *)
(* the OpenAPI document) for registries of every shape.                    *)
(***************************************************************************)
ToolX == Tool("x", "first", <<"q">>, <<"q">>)
ToolY == Tool("y", "second", <<>>, <<>>)
ToolX2 == Tool("x", "again", <<"q", "n">>, <<>>)

Registries ==
  {mcpTools, <<>>, <<ToolX>>, <<ToolY, ToolX>>, <<ToolX, ToolY>>, <<ToolX, ToolX2>>,
   <<ToolX, ToolY, ToolX2>>, SubSeq(mcpTools, 2, 4)}

RegistryTargets ==
  {Target("GET", Url("/health", ""), NoBody),
   Target("GET", Url("/", ""), NoBody),
   Target("GET", Url("/openapi.json", ""), NoBody),
   Target("GET", Url("/.well-known/openapi.json", ""), NoBody),
   Target("POST", Url("/openapi.json", ""), NoBody)}

RegistryInit ==
  /\ env = BaseEnv
  /\ agentClient = NewClient
  /\ reqs = [r \in AllIds |-> NewReq]
  /\ inv = [r \in AllIds |-> NoInv]
  /\ calls = {}
  /\ authRes = NoAuthRes
  /\ registry \in Registries
  /\ listing = NoListing
  /\ oidc = NoOidc
  /\ proc = "listening"
  /\ oauth2 = NewOAuth2Client
  /\ cartCache = NewCartCache

RegistryNext ==
  \/ \E r \in ReqIds, t \in RegistryTargets :
       HttpRequest(r, t.method, t.url, NoHeaders, t.body, 0, TRUE)
  \/ ListTools

SpecRegistry == RegistryInit /\ [][RegistryNext]_vars

(***************************************************************************)
(* SpecDispatch: every registered name, and names outside the registry,    *)
(* invoked over a session (tools/call) and over REST (POST /tools/{name}). *)
(***************************************************************************)
FullArgs ==
  [query |-> "milk", category |-> "dairy", limit |-> "5", productCode |-> "p1",
   quantity |-> "2", cartSummary |-> "2 items", type |-> "card"]

DispatchNames ==
  NameSet(MapName(mcpTools)) \cup {"Search_Products"}

DispatchTargets ==
  {Target("POST", Url("/sse", ""), NoBody)}
    \cup {Target("POST", Url("/tools/", n), JsonBody(FullArgs)) : n \in DispatchNames}

DispatchHeaders == {Headers(Bearer("cA"), Bearer("uA"), UNDEF)}

DispatchInit ==
  /\ env = [BaseEnv EXCEPT !.MCP_AUTH_MODE = "oauth2"]
  /\ agentClient = NewClient
  /\ reqs = [r \in AllIds |-> NewReq]
  /\ inv = [r \in AllIds |-> NoInv]
  /\ calls = {}
  /\ authRes = NoAuthRes
  /\ registry = mcpTools
  /\ listing = NoListing
  /\ oidc = NoOidc
  /\ proc = "listening"
  /\ oauth2 = NewOAuth2Client
  /\ cartCache = NewCartCache

DispatchNext ==
  \/ \E r \in ReqIds :
       \/ \E t \in DispatchTargets, h \in DispatchHeaders :
            HttpRequest(r, t.method, t.url, h, t.body, 0, TRUE)
       \/ RestEnd(r)
  \/ \E r \in AllIds : FetchSettle(r, OutcomeOk(ResultA))
  \/ \E r \in RpcIds, sess \in ReqIds, name \in DispatchNames :
       RpcToolsCall(r, sess, name, FullArgs)

SpecDispatch == DispatchInit /\ [][DispatchNext]_vars

(***************************************************************************)
(* SpecList: tools/list interleaved with tools/call and REST invocations.  *)
(***************************************************************************)
ListTargets ==
  {Target("POST", Url("/sse", ""), NoBody),
   Target("POST", Url("/tools/", "view_cart"), JsonBody(NoArgs))}

ListHeaders == {Headers(Bearer("cA"), Bearer("uA"), UNDEF)}

ListNext ==
  \/ \E r \in ReqIds :
       \/ \E t \in ListTargets, h \in ListHeaders :
            HttpRequest(r, t.method, t.url, h, t.body, 0, TRUE)
       \/ RestEnd(r)
       \/ SseClose(r)
  \/ \E r \in AllIds :
       \/ \E o \in GwOutcomes : FetchSettle(r, o)
       \/ BackoffElapse(r)
  \/ \E r \in RpcIds, sess \in ReqIds : RpcToolsCall(r, sess, "view_cart", NoArgs)
  \/ \E sess \in ReqIds : RpcToolsList(sess)

SpecList == Init /\ [][ListNext]_vars

(***************************************************************************)
(* SpecSchema: the registry of the program listed over MCP sessions and    *)
(* published as the OpenAPI document.                                      *)
(***************************************************************************)
SchemaTargets ==
  {Target("POST", Url("/sse", ""), NoBody),
   Target("GET", Url("/openapi.json", ""), NoBody),
   Target("GET", Url("/.well-known/openapi.json", ""), NoBody)}

SchemaHeaders == {NoHeaders, Headers(Bearer("cA"), Bearer("uA"), UNDEF)}

SchemaNext ==
  \/ \E r \in ReqIds :
       \/ \E t \in SchemaTargets, h \in SchemaHeaders :
            HttpRequest(r, t.method, t.url, h, t.body, 0, TRUE)
       \/ SseClose(r)
  \/ \E sess \in ReqIds : RpcToolsList(sess)

SpecSchema == Init /\ [][SchemaNext]_vars

(***************************************************************************)
(* Properties                                                              *)
(***************************************************************************)
AuthMode == Or(env.MCP_AUTH_MODE, "oauth2")

CallsOf(r) == {c \in calls : c.req = r}

\* C1: every backend call made for a request that a bearer token
\* authenticated carries that request's own token as Authorization: Bearer,
\* whatever other requests and connections presented.
C1_CallCarriesOwnAccessToken ==
  \A c \in calls :
    Truthy(reqs[c.req].auth.accessToken)
      => c.authorization = reqs[c.req].auth.accessToken

\* C2: a backend call made for a request whose own authentication yielded no
\* verified user token carries no X-User-Token header.
C2_NoForeignUserToken ==
  \A c \in calls :
    reqs[c.req].auth.userToken = UNDEF => c.xUserToken = UNDEF

\* C3: a credential that a streaming connection stored is not carried by a
\* backend call made for a request that arrived after that connection closed,
\* unless that request presented the same credential itself.
C3_NoCredentialAfterClose ==
  \A c \in calls : \A s \in reqs[c.req].after :
    /\ (Truthy(reqs[s].auth.accessToken) /\ c.authorization = reqs[s].auth.accessToken)
         => reqs[c.req].auth.accessToken = c.authorization
    /\ (Truthy(reqs[s].auth.userToken) /\ c.xUserToken = reqs[s].auth.userToken)
         => reqs[c.req].auth.userToken = c.xUserToken

AuthFailed(req) ==
  /\ req.st /= "new"
  /\ req.route \in {"sse", "tools"}
  /\ ~req.auth.success

C4_State ==
  \A r \in ReqIds :
    (AuthMode /= "none" /\ AuthFailed(reqs[r]))
      => /\ reqs[r].st = "done"
         /\ reqs[r].status = 401
         /\ reqs[r].wwwAuth
         /\ CallsOf(r) = {}
         /\ inv[r].phase = "idle"

C4_Step ==
  \A r \in ReqIds :
    (reqs[r].st = "new" /\ AuthFailed(reqs'[r]))
      => /\ agentClient' = agentClient
         /\ calls' = calls
         /\ reqs'[r].st = "done"

\* C4: with authentication enabled, a POST /sse or POST /tools/{name} request
\* whose authentication fails is answered 401 with the WWW-Authenticate
\* challenge; it opens no session, stores no credential in the backend
\* client and makes no backend call.
C4_AuthFailureIs401 == []C4_State /\ [][C4_Step]_vars

\* C4 witness: a connection and a tool call have both been refused.
C4_Witness ==
  /\ AuthMode /= "none"
  /\ \E r \in ReqIds : AuthFailed(reqs[r]) /\ reqs[r].route = "sse" /\ reqs[r].status = 401
  /\ \E r \in ReqIds : AuthFailed(reqs[r]) /\ reqs[r].route = "tools" /\ reqs[r].status = 401

\* A request with a Bearer client token and a truthy X-User-Token header.
C5_Case ==
  /\ authRes.checked
  /\ authRes.h.authorization.present /\ authRes.h.authorization.bearer
  /\ HeaderTruthy(authRes.h.xUserToken)

C5_VerifyAuth ==
  ( /\ C5_Case
    /\ AuthMode \in {"oauth2", "hybrid"}
    /\ verifyAccessToken(authRes.h.authorization.value, env, authRes.jwksUp).ok
    /\ ~verifyUserToken(authRes.h.xUserToken.value, env, authRes.jwksUp).ok )
  => /\ authRes.r.success
     /\ authRes.r.accessToken = authRes.h.authorization.value
     /\ authRes.r.userId = UNDEF
     /\ authRes.r.userToken = UNDEF
     /\ authRes.r.error = UNDEF

C5_VerifyDualTokenAuth ==
  ( /\ C5_Case
    /\ verifyClientCredentialsToken(authRes.h.authorization.value, env, authRes.jwksUp).ok
    /\ ~dualVerifyUserToken(authRes.h.xUserToken.value, env, authRes.jwksUp).ok )
  => /\ authRes.ok
     /\ authRes.message = UNDEF
     /\ authRes.context.authMethod = "client-only"
     /\ authRes.context.userId = UNDEF

\* C5: a valid client token with an X-User-Token that fails verification
\* still authenticates, without user identity: verifyAuth succeeds with
\* userId and userToken undefined, verifyDualTokenAuth returns authMethod
\* 'client-only' with userId undefined, and no error is raised.
C5_UserTokenFailureDegrades == C5_VerifyAuth /\ C5_VerifyDualTokenAuth

\* C5 witness: client token cA with an expired user token was verified.
C5_Witness ==
  /\ C5_Case
  /\ AuthMode = "oauth2"
  /\ authRes.h.authorization.value = "cA"
  /\ authRes.h.xUserToken.value = "uExpired"
  /\ authRes.r.success
  /\ authRes.context.authMethod = "client-only"

\* C6: in every AuthContext verifyDualTokenAuth returns, userId is present
\* iff authMethod is 'dual-token', and userToken, userEmail and userName are
\* present only then.
C6_UserIdIffDualToken ==
  (authRes.checked /\ authRes.ok) =>
    LET ctx == authRes.context IN
    /\ ctx.authMethod \in {"dual-token", "client-only"}
    /\ (ctx.userId /= UNDEF <=> ctx.authMethod = "dual-token")
    /\ (ctx.authMethod /= "dual-token"
          => ctx.userToken = UNDEF /\ ctx.userEmail = UNDEF /\ ctx.userName = UNDEF)
    /\ (hasUserContext(ctx) <=> ctx.authMethod = "dual-token")

\* C6 witness: a context with a verified user.
C6_Witness ==
  /\ authRes.checked /\ authRes.ok
  /\ authRes.context.authMethod = "dual-token"
  /\ authRes.context.userId = "alice"
  /\ authRes.context.userToken = "uA"

\* C7: a JSON-RPC message that the client of an open session posts to the
\* session's endpoint is accepted and handed to the session's handlers.
C7_MessagesDelivered ==
  \A r \in ReqIds :
    (reqs[r].session /= 0 /\ reqs[r].st = "done")
      => reqs[r].delivered /\ reqs[r].status /= 404

SameInvocation(r, q) ==
  /\ reqs[r].route = "tools" /\ reqs[q].route = "rpc"
  /\ reqs[r].st = "done" /\ reqs[q].st = "done"
  /\ reqs[r].toolName = reqs[q].toolName
  /\ reqs[r].body = reqs[q].body
  /\ inv[r].phase \in {"returned", "thrown"}
  /\ inv[r].phase = inv[q].phase
  /\ inv[r].attempt = inv[q].attempt
  /\ inv[r].result = inv[q].result
  /\ inv[r].lastError = inv[q].lastError

Sent(r) == {[agent |-> c.agent, data |-> c.data] : c \in CallsOf(r)}

\* C8: for the same tool, arguments and backend behaviour, POST /tools/{name}
\* and tools/call return the same ToolInvocationResult content and send the
\* same agent name and payload to the backend.
C8_RestEqualsRpc ==
  \A r \in ReqIds, q \in RpcIds :
    SameInvocation(r, q)
      => /\ reqs[r].resp.shape = "ToolResult"
         /\ reqs[r].resp = reqs[q].resp
         /\ Sent(r) = Sent(q)

\* C9: when callAgent has exhausted its retries, the request is answered with
\* a tool result whose isError is true and whose text carries the error
\* message, on both surfaces, and never with an HTTP 5xx status.
C9_BackendFailureIsToolResult ==
  \A r \in AllIds :
    (inv[r].phase = "thrown" /\ reqs[r].route \in {"tools", "rpc"})
      => /\ reqs[r].resp.shape = "ToolResult"
         /\ reqs[r].resp.isError
         /\ reqs[r].resp.text \in {inv[r].error, "Error: " \o inv[r].error}
         /\ reqs[r].status \notin 500..599

\* C10: with retries = 3 and every attempt failing, callAgent makes exactly
\* three fetches, waits 1000 ms after the first failure and 2000 ms after the
\* second, does not wait after the third, and throws "Failed after 3
\* attempts: " followed by the last attempt's error message.
C10_ThreeAttemptsThenThrow ==
  \A r \in ReqIds :
    inv[r].retries = 3 =>
      /\ (inv[r].phase = "backoff" => inv[r].attempt < 2)
      /\ (inv[r].phase = "backoff" /\ inv[r].attempt = 0 => inv[r].waits = <<1000>>)
      /\ (inv[r].phase = "backoff" /\ inv[r].attempt = 1 => inv[r].waits = <<1000, 2000>>)
      /\ (inv[r].phase = "returned" => inv[r].result /= NoResult)
      /\ (inv[r].phase = "thrown"
            => /\ Cardinality(CallsOf(r)) = 3
               /\ inv[r].waits = <<1000, 2000>>
               /\ inv[r].error = "Failed after 3 attempts: " \o inv[r].lastError)

\* C10 witness: a call with the default retries has thrown after a refused
\* connection on its last attempt.
C10_Witness ==
  \E r \in ReqIds :
    /\ inv[r].retries = DefaultRetries
    /\ inv[r].phase = "thrown"
    /\ inv[r].lastError = "connect ECONNREFUSED"
    /\ Cardinality(CallsOf(r)) = 3

\* The names the registry holds.
Registered == {registry[i].name : i \in 1..Len(registry)}

\* An authenticated POST /tools/{name} that has been answered.
RestAnswered(r) ==
  /\ reqs[r].route = "tools"
  /\ reqs[r].auth.success
  /\ reqs[r].st = "done"

\* C11: an authenticated POST /tools/{name} with an unregistered name is
\* answered 404 with a body naming the unknown tool, never 500 or 200, and
\* makes no backend call.
C11_UnknownToolIs404 ==
  \A r \in ReqIds :
    (RestAnswered(r) /\ reqs[r].toolName \notin Registered)
      => /\ reqs[r].status = 404
         /\ reqs[r].resp.text = "Unknown tool: " \o reqs[r].toolName
         /\ CallsOf(r) = {}

\* C12: tools/call with an unregistered name makes no backend call and is
\* answered with a JSON-RPC error naming the unknown tool; the handler does
\* not crash and the server does not end the session.
C12_UnknownToolIsJsonRpcError ==
  \A r \in RpcIds :
    (reqs[r].route = "rpc" /\ reqs[r].st = "done" /\ reqs[r].toolName \notin Registered)
      => /\ CallsOf(r) = {}
         /\ inv[r].phase = "idle"
         /\ reqs[r].resp.shape = "JsonRpcError"
         /\ reqs[r].resp.text \in {"Unknown tool: " \o reqs[r].toolName,
                                   "Error: Unknown tool: " \o reqs[r].toolName}
         /\ reqs[reqs[r].session].st \in {"open", "closed"}

\* C13: an authenticated POST /tools/{name} whose body is not valid JSON,
\* for a registered or an unregistered name, is answered 400 or 404, not
\* 5xx, and makes no backend call.
C13_BadBodyIsClientError ==
  \A r \in ReqIds :
    (RestAnswered(r) /\ ~reqs[r].body.json)
      => /\ reqs[r].status \in {400, 404}
         /\ CallsOf(r) = {}

\* The names in the /tools/{name} keys of an OpenAPI document's paths.
ToolNameUniverse == UNION {{g[i].name : i \in 1..Len(g)} : g \in Registries}

PathNames(paths) == {n \in ToolNameUniverse : ("/tools/" \o n) \in paths}

\* C14: whatever the registry holds, the names tools/list returns, the names
\* in the /tools/{name} paths of the OpenAPI document and the tools array of
\* /health are each the registry's name set.
C14_SameNameSet ==
  /\ \A l \in listing.returned : {l[i].name : i \in 1..Len(l)} = Registered
  /\ \A r \in ReqIds :
       /\ (reqs[r].st = "done" /\ reqs[r].route = "health")
            => {reqs[r].resp.tools[i] : i \in 1..Len(reqs[r].resp.tools)} = Registered
       /\ (reqs[r].st = "done" /\ reqs[r].route = "openapi")
            => /\ PathNames(reqs[r].resp.paths) = Registered
               /\ reqs[r].resp.paths \subseteq {"/tools/" \o n : n \in ToolNameUniverse}

\* C14 witness: a registry with a repeated name has been listed on all three
\* surfaces.
C14_Witness ==
  /\ registry = <<ToolX, ToolY, ToolX2>>
  /\ listing.returned /= {}
  /\ \E r \in ReqIds : reqs[r].st = "done" /\ reqs[r].route = "health"
  /\ \E r \in ReqIds : reqs[r].st = "done" /\ reqs[r].route = "openapi"

C15_State ==
  /\ Cardinality(listing.returned) <= 1
  /\ \A l \in listing.returned :
       /\ Len(l) = Len(mcpTools)
       /\ \A i \in 1..Len(l) :
            /\ l[i].name = mcpTools[i].name
            /\ l[i].description = mcpTools[i].description
            /\ l[i].inputSchema = mcpTools[i].inputSchema

\* C15: tools/list returns the same list however often it is called and
\* however it interleaves with tools/call and REST invocations: every
\* registered tool's name, description and inputSchema, in registry order;
\* and no operation modifies the registry.
C15_ListIsIdempotent == []C15_State /\ [][registry' = registry]_vars

\* C15 witness: tools/list has been called twice, with a tools/call and a
\* REST invocation completed.
C15_Witness ==
  /\ listing.callCount = 2
  /\ listing.returned /= {}
  /\ \E q \in RpcIds : reqs[q].route = "rpc" /\ reqs[q].st = "done" /\ CallsOf(q) /= {}
  /\ \E r \in ReqIds : reqs[r].route = "tools" /\ reqs[r].st = "done" /\ CallsOf(r) /= {}

\* The client token of the checked request, and whether the request
\* presented one as Authorization: Bearer.
HasBearer == authRes.checked /\ authRes.h.authorization.present /\ authRes.h.authorization.bearer

ClientTok == Tok(authRes.h.authorization.value)

\* The first present (non-empty) claim of a token in the order client_id,
\* azp, appid, cid, sub; UNDEF when none is present.
FirstClientIdClaim(tk) ==
  LET ids == <<tk.client_id, tk.azp, tk.appid, tk.cid, tk.sub>>
      present == {i \in 1..5 : Truthy(ids[i])}
  IN IF present = {} THEN UNDEF
     ELSE ids[CHOOSE i \in present : \A j \in present : i <= j]

\* C16: in both client-token verifiers (verifyAccessToken behind verifyAuth,
\* verifyClientCredentialsToken behind verifyDualTokenAuth) an accepted
\* token's client id is its first present claim in the order client_id, azp,
\* appid, cid, sub, and a token with none of them is rejected.
C16_ClientIdClaimOrder ==
  HasBearer =>
    /\ (AuthMode \in {"oauth2", "hybrid"}
          => /\ (authRes.r.success => authRes.r.clientId = FirstClientIdClaim(ClientTok))
             /\ (FirstClientIdClaim(ClientTok) = UNDEF => ~authRes.r.success))
    /\ (authRes.ok => authRes.context.clientId = FirstClientIdClaim(ClientTok))
    /\ (FirstClientIdClaim(ClientTok) = UNDEF => ~authRes.ok)

\* The user token of the checked request: the X-User-Token header is
\* present and non-empty.
HasUserHeader == authRes.checked /\ HeaderTruthy(authRes.h.xUserToken)

UserTok == Tok(authRes.h.xUserToken.value)

\* C17: a client token that carries a grant type other than
\* client-credentials fails authentication, and a user token whose grant
\* type is client-credentials fails user-token verification, so that no user
\* identity comes out of it; in verifyAuth and in verifyDualTokenAuth alike.
C17_GrantTypeChecked ==
  /\ (HasBearer /\ ClientTok.decodes /\ Truthy(ClientTok.gty)
        /\ ClientTok.gty /= "client-credentials")
       => /\ (AuthMode \in {"oauth2", "hybrid"} => ~authRes.r.success)
          /\ ~authRes.ok
  /\ (HasBearer /\ HasUserHeader /\ UserTok.decodes /\ UserTok.gty = "client-credentials")
       => /\ (AuthMode \in {"oauth2", "hybrid"}
                => authRes.r.userId = UNDEF /\ authRes.r.userToken = UNDEF)
          /\ authRes.context.userId = UNDEF

\* The client token passes the signature, expiry, issuer and audience checks
\* of verifyAccessToken.
ClientTokVerified ==
  /\ HasBearer
  /\ ClientTok.decodes
  /\ authRes.jwksUp /\ ClientTok.kid \in JwksKeys
  /\ ClientTok.alg = "RS256" /\ ClientTok.sigOk
  /\ ~ClientTok.expired /\ ~ClientTok.notActive
  /\ (Truthy(env.OAUTH2_AUDIENCE) => ClientTok.aud = env.OAUTH2_AUDIENCE)
  /\ (Truthy(env.OAUTH2_ISSUER) => ClientTok.iss = env.OAUTH2_ISSUER)

\* The scopes a token carries.
TokenScopes(tk) ==
  IF tk.scope.t = "string" THEN {tk.scope.v[i] : i \in 1..Len(tk.scope.v)}
  ELSE IF tk.scp.t = "array" THEN {tk.scp.v[i] : i \in 1..Len(tk.scp.v)}
  ELSE {}

\* The entries a comma list names: its pieces without surrounding blanks,
\* the empty ones left out.
Entries(v) == IF v.set THEN {Trim(v.pieces[i]) : i \in 1..Len(v.pieces)} \ {""} ELSE {}

\* C18: with an allowlist configured, a client token that passes the
\* signature, expiry, issuer and audience checks (and carries the required
\* scopes) is accepted iff its client id is exactly one of the entries; with
\* no entry configured every verified client is accepted.
C18_AllowlistExactMatch ==
  ( /\ ClientTokVerified
    /\ AuthMode \in {"oauth2", "hybrid"}
    /\ FirstClientIdClaim(ClientTok) /= UNDEF
    /\ Entries(env.REQUIRED_MCP_SCOPES) \subseteq TokenScopes(ClientTok) )
  => ( authRes.r.success
         <=> \/ Entries(env.ALLOWED_MCP_CLIENTS) = {}
             \/ FirstClientIdClaim(ClientTok) \in Entries(env.ALLOWED_MCP_CLIENTS) )

\* The client id passes the allowlist step of verifyAccessToken.
AllowlistPassed ==
  \/ ~env.ALLOWED_MCP_CLIENTS.set
  \/ FirstClientIdClaim(ClientTok) \in Entries(env.ALLOWED_MCP_CLIENTS)

\* The required scopes the client token does not carry.
MissingScopes == Entries(env.REQUIRED_MCP_SCOPES) \ TokenScopes(ClientTok)

\* The comma lists that name exactly the scopes of S.
ListsOf(S) ==
  {EnvList(q) : q \in {f \in [1..Cardinality(S) -> S] : {f[i] : i \in DOMAIN f} = S}}

\* C19: with required scopes configured, a verified and allowed client token
\* is accepted iff it carries every required scope (extra scopes allowed); on
\* failure the error names the missing scopes, i.e. it is the error of a
\* configuration that requires just the missing ones.
C19_MissingScopesNamed ==
  ( /\ ClientTokVerified
    /\ FirstClientIdClaim(ClientTok) /= UNDEF
    /\ AllowlistPassed
    /\ Entries(env.REQUIRED_MCP_SCOPES) /= {} )
  => LET r == verifyAccessToken(authRes.h.authorization.value, env, authRes.jwksUp) IN
     /\ r.ok <=> MissingScopes = {}
     /\ AuthMode \in {"oauth2", "hybrid"} => (authRes.r.success <=> MissingScopes = {})
     /\ ~r.ok => \E l \in ListsOf(MissingScopes) :
                   r.message =
                     verifyAccessToken(authRes.h.authorization.value,
                                       [env EXCEPT !.REQUIRED_MCP_SCOPES = l],
                                       authRes.jwksUp).message

\* The client token is validly signed by a published key and its exp is in
\* the past.
SignedAndExpired ==
  /\ HasBearer
  /\ ClientTok.decodes
  /\ Truthy(env.OAUTH2_JWKS_URI) /\ authRes.jwksUp /\ ClientTok.kid \in JwksKeys
  /\ ClientTok.alg = "RS256" /\ ClientTok.sigOk
  /\ ClientTok.expired

\* C20: every validly signed client token whose exp is in the past is
\* rejected, whatever its other claims, with the expiry error: the error of
\* the plain expired token, which differs from the errors of a bad signature
\* and of an unknown key.
C20_ExpiredIsExpiryError ==
  (SignedAndExpired /\ AuthMode \in {"oauth2", "hybrid"})
  => LET msg(t) == verifyAccessToken(t, env, authRes.jwksUp).message IN
     /\ ~authRes.r.success
     /\ authRes.r.error = "OAuth2 authentication failed: " \o msg("cExpired")
     /\ msg("cExpired") /= msg("cBadSig")
     /\ msg("cExpired") /= msg("cNoKey")

\* The latest request presented a bearer token whose key cannot be resolved:
\* its key id is not published, or the JWKS endpoint is unreachable.
KeyUnresolved ==
  /\ authRes.checked /\ authRes.req \in ReqIds
  /\ reqs[authRes.req].route \in {"sse", "tools"}
  /\ HasBearer /\ ClientTok.decodes
  /\ (~authRes.jwksUp \/ ClientTok.kid \notin JwksKeys)

\* C21: a client token whose key id is not in the JWKS, or presented while
\* the JWKS endpoint is unreachable, makes verifyAuth return a failure value
\* carrying the key-resolution error (not the invalid-token or expiry error);
\* the request is answered 401 and nothing else in the server changes.
C21_KeyResolutionFailureIsValue ==
  KeyUnresolved =>
    LET req == reqs[authRes.req]
        key == GetSigningKey(ClientTok.kid, authRes.jwksUp)
        msg(t) == verifyAccessToken(t, env, TRUE).message
    IN /\ ~key.ok
       /\ ~req.auth.success
       /\ req.auth.error = "OAuth2 authentication failed: Token verification failed: "
                             \o key.message
       /\ req.auth.error /= "OAuth2 authentication failed: " \o msg("cBadSig")
       /\ req.auth.error /= "OAuth2 authentication failed: " \o msg("cExpired")
       /\ req.st = "done" /\ req.status = 401
       /\ CallsOf(authRes.req) = {} /\ inv[authRes.req].phase = "idle"

\* C21 witness: one request failed on an unpublished key id, and the request
\* after it, made while the JWKS endpoint was unreachable, failed too; the
\* server answered both.
C21_Witness ==
  /\ KeyUnresolved /\ authRes.req = 2 /\ ~authRes.jwksUp
  /\ reqs[2].status = 401
  /\ reqs[1].status = 401 /\ reqs[1].route \in {"sse", "tools"}
  /\ reqs[1].auth.error =
       "OAuth2 authentication failed: Token verification failed: Unable to find a signing key that matches"

\* C21 witness: after a request that failed on key resolution the server
\* accepted the next one.
C21_WitnessKeepsServing ==
  /\ reqs[1].status = 401 /\ reqs[1].route = "sse"
  /\ reqs[1].auth.error =
       "OAuth2 authentication failed: Token verification failed: jwks endpoint unreachable"
  /\ reqs[2].st = "open" /\ reqs[2].auth.success

\* The request carries a bearer token that verifyAccessToken accepts.
ValidBearer ==
  HasBearer /\ verifyAccessToken(authRes.h.authorization.value, env, authRes.jwksUp).ok

\* The request carries the configured API key.
CorrectApiKey == Truthy(env.MCP_API_KEY) /\ authRes.h.xMcpApiKey = env.MCP_API_KEY

\* C22: in hybrid mode a request is accepted iff it carries a valid OAuth2
\* bearer token or an X-MCP-API-Key equal to MCP_API_KEY; in particular a
\* request with the correct API key is accepted.
C22_HybridAcceptsEither ==
  (authRes.checked /\ AuthMode = "hybrid")
    => (authRes.r.success <=> (ValidBearer \/ CorrectApiKey))

\* The upstream fetch of a call failed: no response, a non-2xx status, or a
\* body that is not a JSON document.
FetchFailed(g) == g.fetched /\ g.pc /= "fetch" /\ ~(g.upstream.ok /\ g.upstream.doc.present)

\* The call found a cached configuration whose TTL had expired.
FoundExpired(g) ==
  g.seen.config.present /\ g.now - g.seen.timestamp >= CACHE_TTL

C23_State ==
  \A c \in GetIds :
    LET g == oidc.gets[c] IN
    FetchFailed(g) =>
      /\ ~g.wrote
      /\ g.pc = "returned" => (g.src = "stale" /\ g.result.present)
      /\ g.pc = "thrown" => ~g.result.present

C23_Step ==
  \A c \in GetIds :
    (oidc.gets[c].pc = "fetch" /\ FetchFailed(oidc'.gets[c]))
      => /\ oidc'.cache = oidc.cache
         /\ IF oidc.cache.config.present
            THEN /\ oidc'.gets[c].pc = "returned"
                 /\ oidc'.gets[c].result = oidc.cache.config
            ELSE oidc'.gets[c].pc = "thrown"

YoungerThanTtl(cache, now) == cache.config.present /\ now - cache.timestamp < CACHE_TTL

UpstreamConfigured == Truthy(env.OAUTH2_OPENID_CONFIG_URL)

C24_State ==
  \A c \in GetIds :
    LET g == oidc.gets[c] IN
    g.pc /= "idle" =>
      /\ YoungerThanTtl(g.seen, g.now)
           => /\ g.pc = "returned" /\ g.src = "cache" /\ g.result = g.seen.config
              /\ ~g.fetched /\ ~g.wrote
      /\ (UpstreamConfigured /\ ~YoungerThanTtl(g.seen, g.now)) => g.fetched

C24_Step ==
  \A c \in GetIds :
    (oidc.gets[c].pc = "idle" /\ oidc'.gets[c].pc /= "idle")
      => /\ oidc'.gets[c].seen = oidc.cache /\ oidc'.gets[c].now = oidc.now
         /\ YoungerThanTtl(oidc.cache, oidc.now) => oidc'.cache = oidc.cache
         /\ (UpstreamConfigured /\ oidc.cache = EmptyCache) => oidc'.gets[c].pc = "fetch"

\* C24: a getOpenIDConfiguration call made less than one hour after the cache
\* timestamp returns the cached document without contacting the upstream
\* provider and without touching the cache; a call made at or after one hour
\* fetches; and a call that finds the cache cleared fetches whatever the age
\* of what was cached before.
C24_CacheTtl == []C24_State /\ [][C24_Step]_vars

\* C24 witness: a fetched configuration was cached, and the call made
\* exactly one hour after its timestamp fetched again.
C24_Witness ==
  \E c, d \in GetIds :
    LET g == oidc.gets[c]
        f == oidc.gets[d] IN
    /\ f.pc = "returned" /\ f.src = "fresh"
    /\ g.seen = [config |-> f.result, timestamp |-> f.now]
    /\ g.now - g.seen.timestamp = CACHE_TTL
    /\ g.fetched

\* C24 witness: a call made one millisecond short of the hour returned the
\* cached document.
C24_WitnessCached ==
  \E c \in GetIds :
    LET g == oidc.gets[c] IN
    /\ g.seen.config.present /\ g.now - g.seen.timestamp = CACHE_TTL - 1
    /\ g.src = "cache" /\ ~g.fetched

\* The configuration advertises the client-credentials grant only and none
\* of the endpoints of the interactive flows.
ClientCredentialsOnly(config) ==
  /\ config.grant_types_supported = List(<<"client_credentials">>)
  /\ config.authorization_endpoint = UNDEF
  /\ config.userinfo_endpoint = UNDEF
  /\ config.end_session_endpoint = UNDEF

CompleteDocuments ==
  {FilterConfig(o.doc) : o \in {u \in UpstreamOutcomes : u.ok /\ u.doc.present}}
    \cup {MinimalConfig(env)}

\* A cache content is whole: empty, or a complete document together with the
\* timestamp that a call other than c wrote with it.
WholeCache(cache, c) ==
  \/ cache = EmptyCache
  \/ /\ cache.config \in CompleteDocuments
     /\ \E d \in GetIds \ {c} :
          /\ oidc.gets[d].wrote
          /\ oidc.gets[d].result = cache.config
          /\ oidc.gets[d].now = cache.timestamp

\* C26: under every interleaving of getOpenIDConfiguration calls, their
\* upstream fetches overlapping, the cache is either empty or one complete
\* filtered document paired with the timestamp written together with it, and
\* that is what every caller found when it read the cache.
C26_CacheReplacedWhole ==
  /\ WholeCache(oidc.cache, 0)
  /\ \A c \in GetIds : oidc.gets[c].pc /= "idle" => WholeCache(oidc.gets[c].seen, c)

\* C26 witness: two calls overlapped, each fetched a different document, and
\* the one that started first wrote the cache last.
C26_Witness ==
  \E c, d \in GetIds :
    LET g == oidc.gets[c]
        f == oidc.gets[d] IN
    /\ g.wrote /\ f.wrote /\ g.src = "fresh" /\ f.src = "fresh"
    /\ g.result /= f.result
    /\ g.now < f.now
    /\ oidc.cache = [config |-> g.result, timestamp |-> g.now]

\* The requests for the discovery documents: GET on one of the two
\* well-known paths, with or without the /sse prefix.
WellKnown(req) == req.st /= "new" /\ req.route \in {"openid", "protected-resource"}

\* C27: GET /.well-known/openid-configuration and GET
\* /.well-known/oauth-protected-resource are answered 404 iff MCP_AUTH_MODE is
\* 'none'; in that mode the upstream provider is never contacted and the
\* OpenID cache is never populated.
C27_DiscoveryOffIffNone ==
  /\ \A r \in ReqIds :
       WellKnown(reqs[r]) =>
         /\ AuthMode = "none" => (reqs[r].st = "done" /\ reqs[r].status = 404)
         /\ (AuthMode /= "none" /\ reqs[r].st = "done") => reqs[r].status \in {200, 500}
         /\ (AuthMode /= "none" /\ reqs[r].route = "protected-resource")
              => (reqs[r].st = "done" /\ reqs[r].status = 200)
  /\ AuthMode = "none" =>
       /\ oidc.cache = EmptyCache
       /\ \A c \in GetIds : oidc.gets[c] = NoGet

\* C27 witness: with authentication disabled and an upstream URL configured,
\* both documents were requested and refused.
C27_Witness ==
  /\ AuthMode = "none" /\ UpstreamConfigured
  /\ \E r, q \in ReqIds :
       /\ reqs[r].route = "openid" /\ reqs[r].status = 404
       /\ reqs[q].route = "protected-resource" /\ reqs[q].status = 404

\* C27 witness: with authentication enabled both documents were served.
C27_WitnessServed ==
  /\ AuthMode /= "none"
  /\ \E r, q \in ReqIds :
       /\ reqs[r].route = "openid" /\ reqs[r].status = 200
       /\ reqs[r].resp.config.present
       /\ reqs[q].route = "protected-resource" /\ reqs[q].status = 200

\* A health probe that the server has taken up.
HealthProbe(req) == req.st /= "new" /\ req.route = "health"

C28_State ==
  \A r \in ReqIds :
    HealthProbe(reqs[r]) =>
      /\ reqs[r].st = "done" /\ reqs[r].status = 200
      /\ reqs[r].resp.shape = "health"
      /\ reqs[r].resp.tools = [i \in 1..Len(registry) |-> registry[i].name]
      /\ reqs[r].auth = NoAuth /\ ~reqs[r].wwwAuth
      /\ CallsOf(r) = {} /\ inv[r].phase = "idle"

C28_Step ==
  \A r \in ReqIds :
    (reqs[r].st = "new" /\ HealthProbe(reqs'[r]))
      => /\ agentClient' = agentClient
         /\ calls' = calls
         /\ inv' = inv

\* C28: GET /health is answered 200 with the names of the registry's tools
\* in every authentication mode, whatever Authorization or API-key headers
\* the request carries; no authentication result is attached to it, no
\* credential is stored and no backend call is made.
C28_HealthNeedsNoAuth == []C28_State /\ [][C28_Step]_vars

\* C28 witness: under OAuth2 a health probe without any credential was
\* answered 200 after a connection attempt had been refused.
C28_Witness ==
  /\ AuthMode = "oauth2"
  /\ authRes.req = 2 /\ authRes.h = NoHeaders
  /\ reqs[2].route = "health" /\ reqs[2].status = 200
  /\ reqs[2].resp.tools = MapName(mcpTools)
  /\ reqs[1].route = "sse" /\ reqs[1].status = 401

\* The configuration lacks a variable that the authentication mode needs.
ConfigurationMissing ==
  \/ AuthMode \in {"oauth2", "hybrid"} /\ ~Truthy(env.OAUTH2_JWKS_URI)
  \/ AuthMode \in {"api-key", "hybrid"} /\ ~Truthy(env.MCP_API_KEY)

\* The errors with which a request is refused for want of configuration.
ConfigurationErrors ==
  {"MCP authentication not configured",
   "OAuth2 authentication failed: Token verification failed: "
     \o "OAUTH2_JWKS_URI environment variable is required for OAuth2 authentication"}

C29_State ==
  /\ ConfigurationMissing => proc /= "listening"
  /\ proc /= "listening" => \A r \in ReqIds : reqs[r].st = "new"
  /\ \A r \in ReqIds : reqs[r].auth.error \notin ConfigurationErrors

C29_Step == (proc' /= proc) => (proc = "starting" /\ (proc' = "exited" <=> ConfigurationMissing))

C29_WitnessListening ==
  /\ AuthMode = "hybrid" /\ proc = "listening"
  /\ \E r \in ReqIds : reqs[r].status = 401

\* C30: tools/list returns a non-empty list in which every tool has a
\* non-empty name, a non-empty description and an inputSchema of type
\* 'object'; the OpenAPI document has, for each of these tools, a path whose
\* request-body schema has type 'object'.
C30_SchemasAreObjects ==
  /\ \A res \in listing.returned :
       /\ Len(res) > 0
       /\ \A i \in 1..Len(res) :
            /\ Truthy(res[i].name)
            /\ Truthy(res[i].description)
            /\ res[i].inputSchema.type = "object"
  /\ \A r \in ReqIds :
       reqs[r].resp.shape = "openapi" =>
         /\ {p.path : p \in reqs[r].resp.schemas}
              = {"/tools/" \o registry[i].name : i \in 1..Len(registry)}
         /\ reqs[r].resp.schemas /= {}
         /\ \A p \in reqs[r].resp.schemas : p.schema.type = "object"

\* C30 witness: the tools have been listed over a session and the OpenAPI
\* document has been served.
C30_Witness ==
  /\ \E res \in listing.returned : Len(res) = Len(mcpTools)
  /\ \E r \in ReqIds : reqs[r].resp.shape = "openapi" /\ reqs[r].status = 200
                        /\ Cardinality(reqs[r].resp.schemas) = Len(mcpTools)

\* C31: within one streaming session JSON-RPC messages are processed in
\* arrival order: no tools/list of a session is handled and answered while a
\* tools/call that the session delivered earlier is still being handled
\* (its fetch, its retries or its backoff wait outstanding).
C31_SessionOrder ==
  listing.overtook = {}

\* A call of getAccessToken or refreshToken is made by caller c in this step.
Calls(c) == oauth2.callers[c].pc = "idle" /\ oauth2'.callers[c].pc /= "idle"

\* The cached token exists and expires more than 5 minutes from now.
MoreThanFiveMinutesLeft ==
  /\ oauth2.cachedToken.present
  /\ oauth2.cachedToken.expiresAt > oauth2.now + 5 * 60 * 1000

C32_State ==
  \A c \in CallerIds :
    oauth2.callers[c].src = "cache" =>
      /\ oauth2.callers[c].pc = "returned"
      /\ oauth2.callers[c].awaiting = 0
      /\ oauth2.callers[c].token /= UNDEF

C32_Step ==
  \A c \in CallerIds :
    Calls(c) =>
      IF oauth2'.callers[c].op = "getAccessToken"
      THEN /\ oauth2'.callers[c].src = "cache" <=> MoreThanFiveMinutesLeft
           /\ oauth2'.callers[c].src = "cache" =>
                /\ oauth2'.callers[c].token = oauth2.cachedToken.token
                /\ oauth2'.requests = oauth2.requests
                /\ oauth2'.cachedToken = oauth2.cachedToken
      ELSE oauth2'.callers[c].src /= "cache"

\* C32: getAccessToken returns the cached token, issuing no token request,
\* exactly when a cached token exists that expires more than 5 minutes after
\* the call; an expired token or one within 5 minutes of expiry is never
\* returned from the cache (refreshToken never returns from the cache).
C32_CacheBuffer == []C32_State /\ [][C32_Step]_vars

\* C32 witness: one caller was served from the cache, and a later
\* getAccessToken, finding the cached token too close to its expiry, has a
\* token request pending while that token is still cached.
C32_Witness ==
  \E c1, c2 \in CallerIds :
    /\ c1 < c2
    /\ oauth2.callers[c1].src = "cache"
    /\ oauth2.callers[c2].op = "getAccessToken" /\ oauth2.callers[c2].pc = "initiator"
    /\ oauth2.cachedToken.present
    /\ oauth2.cachedToken.expiresAt > oauth2.now

\* The attempts callAgent has made for invocation r, by their position.
AttemptNumbers(r) == {c.n : c \in CallsOf(r)}

C33_State ==
  \A r \in ReqIds :
    inv[r].phase /= "idle" =>
      /\ AttemptNumbers(r) = 0..(Cardinality(CallsOf(r)) - 1)
      /\ \A c \in CallsOf(r) : c.n + 1 <= inv[r].retries
      /\ inv[r].phase = "fetch" =>
           /\ Cardinality(CallsOf(r)) = inv[r].attempt + 1
           /\ Len(inv[r].waits) = inv[r].attempt
      /\ inv[r].phase = "returned" /\ CallsOf(r) /= {} =>
           /\ Cardinality(CallsOf(r)) = inv[r].attempt + 1
           /\ Len(inv[r].waits) = inv[r].attempt
           /\ inv[r].result \in {o.result : o \in {x \in Outcomes : x.ok}}

C33_Step ==
  \A r \in ReqIds :
    /\ (CallsOf(r)' /= CallsOf(r) /\ CallsOf(r) /= {}) =>
         /\ inv[r].phase = "backoff"
         /\ inv[r].lastError \in {o.message : o \in {x \in Outcomes : ~x.ok}}
         /\ Len(inv[r].waits) = Cardinality(CallsOf(r))
    /\ inv[r].phase \in {"returned", "thrown"} =>
         /\ inv'[r] = inv[r]
         /\ CallsOf(r)' = CallsOf(r)
    /\ (inv[r].phase = "fetch" /\ inv'[r].phase = "returned") =>
         /\ inv'[r].waits = inv[r].waits
         /\ CallsOf(r)' = CallsOf(r)

PendingTokenRequests(o) == {k \in TokenRequestIds : o.requests[k].st = "pending"}

\* Caller c has received the outcome of the request it awaited.
ReceivedOutcomeOf(c, k) ==
  LET result == oauth2.requests[k].result IN
  /\ oauth2.requests[k].st = "settled"
  /\ IF result.ok
     THEN /\ oauth2.callers[c].pc = "returned"
          /\ oauth2.callers[c].token = result.token.token
     ELSE /\ oauth2.callers[c].pc = "thrown"
          /\ oauth2.callers[c].error = result.message

C34_State ==
  /\ Cardinality(PendingTokenRequests(oauth2)) <= 1
  /\ \A k \in PendingTokenRequests(oauth2) : oauth2.tokenRefreshPromise = k
  /\ \A c \in CallerIds :
       oauth2.callers[c].src = "wait" =>
         \/ oauth2.callers[c].pc = "waiting"
         \/ ReceivedOutcomeOf(c, oauth2.callers[c].awaiting)

C34_Step ==
  \A c \in CallerIds, k \in TokenRequestIds :
    (Calls(c) /\ k \in PendingTokenRequests(oauth2)
      /\ (oauth2'.callers[c].op = "refreshToken" \/ ~MoreThanFiveMinutesLeft)) =>
        /\ oauth2'.callers[c].pc = "waiting"
        /\ oauth2'.callers[c].awaiting = k
        /\ PendingTokenRequests(oauth2') = {k}
        /\ \A j \in TokenRequestIds : oauth2'.requests[j] = oauth2.requests[j]

\* C34: at most one token request is in flight per OAuth2Client; a
\* getAccessToken or refreshToken call made while one is in flight starts
\* no other request and waits for that one, and every caller that waited
\* returns that request's token or throws that request's error.
C34_SingleFlight == []C34_State /\ [][C34_Step]_vars

\* C34 witness: while one request was in flight a getAccessToken and a
\* refreshToken call both waited for it, and both have received its outcome.
C34_Witness ==
  \E c1, c2 \in CallerIds :
    /\ oauth2.callers[c1].src = "wait" /\ oauth2.callers[c1].op = "getAccessToken"
    /\ oauth2.callers[c2].src = "wait" /\ oauth2.callers[c2].op = "refreshToken"
    /\ oauth2.callers[c1].awaiting = oauth2.callers[c2].awaiting
    /\ oauth2.callers[c1].pc = "returned" /\ oauth2.callers[c2].pc = "returned"

\* C34 witness: two callers that waited for a failing request have both
\* thrown its error.
C34_WitnessError ==
  \E c1, c2 \in CallerIds :
    /\ c1 /= c2
    /\ oauth2.callers[c1].src = "wait" /\ oauth2.callers[c2].src = "wait"
    /\ oauth2.callers[c1].pc = "thrown" /\ oauth2.callers[c2].pc = "thrown"
    /\ oauth2.callers[c1].error = oauth2.callers[c2].error

\* Request k fails in this step.
Fails(k) ==
  /\ oauth2.requests[k].st = "pending"
  /\ oauth2'.requests[k].st = "settled"
  /\ ~oauth2'.requests[k].result.ok

\* The latest token request has failed and none has been started since.
LatestRequestFailed ==
  /\ PendingTokenRequests(oauth2) = {}
  /\ \E k \in TokenRequestIds :
       /\ oauth2.requests[k].st = "settled" /\ ~oauth2.requests[k].result.ok
       /\ \A j \in TokenRequestIds : j > k => oauth2.requests[j].st = "unused"

C39_State ==
  /\ \A c \in CallerIds :
       LET k == oauth2.callers[c].awaiting IN
       (k /= 0 /\ oauth2.requests[k].st = "settled" /\ ~oauth2.requests[k].result.ok) =>
         /\ oauth2.callers[c].pc \in {"waiting", "thrown"}
         /\ oauth2.callers[c].src = "refresh" => oauth2.callers[c].pc = "thrown"
         /\ oauth2.callers[c].pc = "thrown" =>
              /\ oauth2.callers[c].error = oauth2.requests[k].result.message
              /\ oauth2.callers[c].token = UNDEF
  /\ LatestRequestFailed =>
       /\ oauth2.tokenRefreshPromise = 0
       /\ ~MoreThanFiveMinutesLeft

C39_Step ==
  /\ \A k \in TokenRequestIds :
       Fails(k) =>
         /\ oauth2'.cachedToken = oauth2.cachedToken
         /\ oauth2'.tokenRefreshPromise = 0
  /\ \A c \in CallerIds :
       (Calls(c) /\ LatestRequestFailed) =>
         /\ oauth2'.callers[c].pc = "initiator"
         /\ \E k \in TokenRequestIds :
              /\ oauth2.requests[k].st = "unused"
              /\ oauth2'.requests[k].st = "pending"
              /\ oauth2'.callers[c].awaiting = k
              /\ oauth2'.tokenRefreshPromise = k

\* C39: when a token request fails, the caller that started it and every
\* caller that waited for it throw its error and none returns a token; the
\* failing step leaves cachedToken as it was and clears tokenRefreshPromise;
\* and the next call finds no usable cached token and no marker, and starts
\* a fresh token request.
C39_FailureLeavesClientUsable == []C39_State /\ [][C39_Step]_vars

\* C39 witness: a request failed, its initiator and a waiter have both
\* thrown, and a later getAccessToken call has a fresh request in flight.
C39_Witness ==
  \E c1, c2, c3 \in CallerIds :
    /\ oauth2.callers[c1].src = "refresh" /\ oauth2.callers[c1].pc = "thrown"
    /\ oauth2.callers[c2].src = "wait" /\ oauth2.callers[c2].pc = "thrown"
    /\ oauth2.callers[c2].awaiting = oauth2.callers[c1].awaiting
    /\ oauth2.callers[c3].op = "getAccessToken" /\ oauth2.callers[c3].pc = "initiator"
    /\ oauth2.callers[c3].awaiting > oauth2.callers[c1].awaiting

\* C39 witness: a request failed while a token was cached, and the token is
\* still cached.
C39_WitnessCacheKept ==
  /\ LatestRequestFailed
  /\ oauth2.cachedToken.present

\* Request r has been handed to a tool router: a delivered tools/call, or an
\* authenticated POST /tools/{name} whose JSON body has been parsed.
Dispatched(r) ==
  \/ reqs[r].route = "rpc" /\ reqs[r].st \in {"calling", "done"}
  \/ /\ reqs[r].route = "tools" /\ reqs[r].st \in {"calling", "done"}
     /\ reqs[r].auth.success /\ reqs[r].body.json

\* C35: on both surfaces a dispatched invocation reaches a backend agent
\* exactly when its tool name is one the registry lists; whatever reaches
\* the backend carries a registered name; and a tools/call and a
\* POST /tools/{name} for the same tool with the same arguments go to the
\* same agent with the same action and payload.
C35_DispatchSetIsRegistry ==
  /\ \A r \in AllIds :
       Dispatched(r) => (CallsOf(r) /= {} <=> reqs[r].toolName \in Registered)
  /\ \A c \in calls : reqs[c.req].toolName \in Registered
  /\ \A c1, c2 \in calls :
       (reqs[c1.req].toolName = reqs[c2.req].toolName
         /\ reqs[c1.req].body.args = reqs[c2.req].body.args) =>
           (c1.agent = c2.agent /\ c1.data = c2.data)

\* C35 witness: one tool has been invoked over a session and over REST, and
\* both invocations have reached the backend.
C35_Witness ==
  \E r1, r2 \in AllIds :
    /\ reqs[r1].route = "rpc" /\ reqs[r2].route = "tools"
    /\ reqs[r1].toolName = "get_deals" /\ reqs[r2].toolName = "get_deals"
    /\ CallsOf(r1) /= {} /\ CallsOf(r2) /= {}

\* C35 witness: a name outside the registry has been dispatched over REST
\* and answered without a backend call.
C35_WitnessUnlisted ==
  \E r \in ReqIds :
    /\ Dispatched(r) /\ reqs[r].route = "tools"
    /\ reqs[r].toolName = "Search_Products"
    /\ reqs[r].status = 404 /\ CallsOf(r) = {}

\* C36: verifyAuth always returns an AuthResult, a failure carrying an error
\* message and no identity; it returns success only when the mode is 'none',
\* or the mode is oauth2 or hybrid and the bearer token verified, or the
\* mode is api-key or hybrid and X-MCP-API-Key equals a non-empty
\* MCP_API_KEY; a mode value that is none of the four rejects every request.
C36_FailClosed ==
  authRes.checked =>
    LET r == authRes.r
        h == authRes.h
    IN /\ r.success \in BOOLEAN
       /\ ~r.success =>
            /\ r.error /= UNDEF
            /\ r.accessToken = UNDEF /\ r.userToken = UNDEF
            /\ r.clientId = UNDEF /\ r.userId = UNDEF
       /\ r.success =>
            /\ r.error = UNDEF
            /\ \/ AuthMode = "none"
               \/ /\ AuthMode \in {"oauth2", "hybrid"}
                  /\ h.authorization.present /\ h.authorization.bearer
                  /\ verifyAccessToken(h.authorization.value, env, authRes.jwksUp).ok
                  /\ r.accessToken = h.authorization.value
               \/ /\ AuthMode \in {"api-key", "hybrid"}
                  /\ env.MCP_API_KEY \notin {UNDEF, ""}
                  /\ h.xMcpApiKey = env.MCP_API_KEY
       /\ AuthMode \notin {"oauth2", "api-key", "hybrid", "none"} => ~r.success

\* C36 witness: under a mode value that is no mode a request carrying a
\* valid bearer token and the right API key has been rejected.
C36_Witness ==
  /\ authRes.checked
  /\ env.MCP_AUTH_MODE = "OAuth2" /\ env.MCP_API_KEY = "secret"
  /\ authRes.h.authorization = Bearer("cA") /\ authRes.h.xMcpApiKey = "secret"
  /\ authRes.jwksUp
  /\ ~authRes.r.success /\ authRes.r.error = "No valid authentication provided"

\* C36 witness: verifyAuth has accepted a request by its API key.
C36_WitnessApiKey ==
  /\ authRes.checked /\ authRes.r.success
  /\ env.MCP_AUTH_MODE = "api-key" /\ authRes.h.xMcpApiKey = "secret"
  /\ authRes.h.authorization = NoHeader

\* A request the server has passed through verifyAuth.
Verified(r) == reqs[r].route = "tools" /\ reqs[r].st /= "new"

\* C37: requests that differ only in their X-User-Token header get the same
\* accept/reject decision, the same error, the same client id and the same
\* accessToken from verifyAuth; a rejected request carries no userId and no
\* userToken whatever user token it presented.
C37_UserTokenIndependence ==
  \A r \in ReqIds :
    (authRes.checked /\ Verified(r)) =>
      /\ reqs[r].auth.success = authRes.r.success
      /\ reqs[r].auth.error = authRes.r.error
      /\ reqs[r].auth.clientId = authRes.r.clientId
      /\ reqs[r].auth.accessToken = authRes.r.accessToken
      /\ ~reqs[r].auth.success =>
           (reqs[r].auth.userId = UNDEF /\ reqs[r].auth.userToken = UNDEF)
      /\ ~authRes.h.authorization.bearer =>
           (reqs[r].auth.userId = UNDEF /\ reqs[r].auth.userToken = UNDEF)

\* C37 witness: of two accepted requests with the same client token one
\* presented a user token that verified and the other one that did not, and
\* they differ in userId.
C37_Witness ==
  /\ authRes.checked /\ authRes.r.success /\ authRes.r.userId /= UNDEF
  /\ \E r \in ReqIds :
       /\ Verified(r) /\ reqs[r].auth.success
       /\ reqs[r].auth.userId = UNDEF
       /\ reqs[r].auth.clientId = authRes.r.clientId /\ reqs[r].auth.clientId /= UNDEF

\* C37 witness: of two requests with a client token that fails, one with a
\* valid user token and one without, both are rejected.
C37_WitnessRejected ==
  /\ authRes.checked /\ ~authRes.r.success
  /\ authRes.h.authorization = Bearer("cExpired") /\ authRes.h.xUserToken = Bearer("uA")
  /\ \E r \in ReqIds : Verified(r) /\ reqs[r].status = 401


\* C38: whatever the value of retries, callAgent settles only after an
\* attempt on the backend: a call that has returned carries the JSON body of
\* a 2xx response, a call that has thrown carries an error, and neither has
\* settled without a fetch.
C38_NeverResolvesUndefined ==
  \A r \in ReqIds :
    /\ inv[r].phase = "returned" =>
         (\E c \in CallsOf(r) : TRUE) /\ inv[r].result /= NoResult
    /\ inv[r].phase = "thrown" =>
         (\E c \in CallsOf(r) : TRUE) /\ inv[r].error /= UNDEF


\* C40: after any sequence of addItemToCart, removeItemFromCart,
\* updateItemQuantity, clearCart and clearAllCarts calls every stored cart
\* has totalItems equal to the sum of its items' quantities, totalValue equal
\* to the sum of price * quantity over its items, and at most one item per
\* item id.
C40_CartTotalsConsistent ==
  \A u \in UserIds :
    cartCache.carts[u].present =>
      /\ cartCache.carts[u].totalItems =
           ReduceQuantity(cartCache.objs, cartCache.carts[u].items)
      /\ cartCache.carts[u].totalValue =
           ReduceValue(cartCache.objs, cartCache.carts[u].items)
      /\ \A i, j \in 1..Len(cartCache.carts[u].items) :
           i /= j => cartCache.objs[cartCache.carts[u].items[i]].id
                       /= cartCache.objs[cartCache.carts[u].items[j]].id

=============================================================================
